---- MODULE Spec2Model ----
(***************************************************************************)
(* Chorus: the message buffer, the content pipeline and the trigger        *)
(* endpoints of the Slack media bot, as a state machine.                   *)
(*                                                                         *)
(* Time is the UTC clock in minutes.  The durable store (Supabase) is the  *)
(* tables db_messages, db_summaries and db_suggestions; the in-process     *)
(* cache is BufferService._buffers.  Every handler of the process runs on  *)
(* one asyncio event loop: a handler keeps the loop until it reaches an    *)
(* await that really suspends (a Slack API call).  The LLM client and the  *)
(* store client are synchronous, so they never release the loop.           *)
(***************************************************************************)
EXTENDS Bags, Integers, Sequences, FiniteSets, TLC

\* ------------------------------------------------------------------------
\* Program constants (app/config.py, app/services/buffer.py, app/database.py)
\* ------------------------------------------------------------------------
buffer_window_minutes == 60
min_messages_for_summary == 8
max_suggestions_per_day == 3
TimeFloor == 3
MinutesPerDay == 1440
ForceIdeasTaken == 1

\* ------------------------------------------------------------------------
\* Bounds of the environment (not of the program)
\* ------------------------------------------------------------------------
\* The buffer exercised alone: clock steps and recorded messages
MaxTicks == 2
MaxMessages == 8
\* The whole process: clock steps, recorded messages and started handlers
MaxEvents == 3
\* The normal run: passes started by the scheduler
MaxLiveRuns == 1
\* The force endpoint exercised alone: calls of the endpoint
MaxForceRuns == 4
\* Ideas returned by detection for one channel
MaxIdeas == 4
\* Runs of either pipeline while draft generation may fail
MaxDraftRuns == 2
\* Ideas handed to filter_ideas in one call
MaxBatch == 2
\* The summarizer's own way through a channel: calls of it
MaxSummaryRuns == 2
\* The reviewer's feedback: passes that produce suggestions and reactions,
\* together
MaxFeedbackEvents == 3
\* Model outputs: the longest short raw text, and by how much a long raw
\* text exceeds the limit of the X draft
MaxRaw == 3
MaxOver == 2

\* The clock advances by a short or by a long step.  The process starts
\* shortly before a UTC midnight, so that a day change is within reach of
\* a running pass.
ShortStep == 5
TimeSteps == {ShortStep, buffer_window_minutes}
StartMinute == MinutesPerDay - ShortStep

\* The listening_channels table, in the order the store returns it.
Channels == <<"c1", "c2">>
ChannelSet == {Channels[i] : i \in 1..Len(Channels)}

\* The invocations of scheduled_pipeline_run that are alive at once: the
\* scheduler's job and the background task of POST /api/trigger run the
\* same coroutine.
PassIds == {"sched", "trig"}

VARIABLES
    now,             \* datetime.utcnow(), in minutes
    ticks,           \* clock steps taken
    db_messages,     \* messages table: per channel, created_at of each row
    buffers,         \* BufferService._buffers
    db_summaries,    \* summaries table
    db_suggestions,  \* suggestions table
    pass,            \* the two invocations of scheduled_pipeline_run
    force,           \* the invocation of force_trigger_pipeline
    loop,            \* the handler that holds the event loop, or "free"
    runs,            \* pipeline invocations started
    received,        \* Slack events (messages, reactions) handled
    probe,           \* what the last call observed and did
    suggestion_message_map,
                     \* SlackBot._suggestion_message_map: the suggestion id
                     \* under each message timestamp, in the order posted
    rewriting        \* the bag of invocations of SlackBot._rewrite_suggestion that
                     \* await their post to Slack, each with what it read

vars == <<now, ticks, db_messages, buffers, db_summaries, db_suggestions,
          pass, force, loop, runs, received, probe, suggestion_message_map,
          rewriting>>

\* ------------------------------------------------------------------------
\* Helpers
\* ------------------------------------------------------------------------
Max0(x) == IF x < 0 THEN 0 ELSE x

Min(a, b) == IF a < b THEN a ELSE b

Range(seq) == {seq[i] : i \in 1..Len(seq)}

\* datetime.utcnow().replace(hour=0, minute=0, second=0, microsecond=0)
TodayStart(t) == (t \div MinutesPerDay) * MinutesPerDay

\* A SlackMessage of channel c: the i-th row of the channel in db_messages.
SlackMessage(c, i) == [message_id |-> i, channel_id |-> c,
                       timestamp |-> db_messages[c][i]]

\* MessageBuffer(channel_id, messages=[], started_at=t)
MessageBuffer(t) == [present |-> TRUE, messages |-> <<>>, started_at |-> t]

\* channel_id not in self._buffers
NoBuffer == [present |-> FALSE, messages |-> <<>>, started_at |-> 0]

\* ------------------------------------------------------------------------
\* Database
\* ------------------------------------------------------------------------
\* Database.get_messages_in_window: rows of the channel with
\* created_at >= utcnow() - window, ordered by created_at.  Rows are
\* inserted with a monotone clock, so insertion order is created_at order.
get_messages_in_window(c, window_minutes) ==
    LET cutoff == now - window_minutes
        rows == [i \in 1..Len(db_messages[c]) |-> SlackMessage(c, i)]
    IN  SelectSeq(rows, LAMBDA m : m.timestamp >= cutoff)

\* Database.get_suggestions_today: rows with created_at >= today's 00:00.
get_suggestions_today ==
    SelectSeq(db_suggestions, LAMBDA s : s.created_at >= TodayStart(now))

\* ------------------------------------------------------------------------
\* BufferService
\* ------------------------------------------------------------------------
get_buffer_from_db(c) == get_messages_in_window(c, buffer_window_minutes)

\* BufferService.add_message on the cache: create the buffer when the
\* channel has none, then append.
add_message(bufs, c, m) ==
    LET b == IF bufs[c].present THEN bufs[c] ELSE MessageBuffer(now)
    IN  [bufs EXCEPT ![c] = [b EXCEPT !.messages = Append(@, m)]]

\* Variant: the elapsed-time trigger without its floor of three messages.
should_summarize_no_floor(c) ==
    LET buffer == buffers[c] IN
    IF ~buffer.present \/ buffer.messages = <<>>
    THEN Len(get_buffer_from_db(c)) >= min_messages_for_summary
    ELSE \/ Len(buffer.messages) >= min_messages_for_summary
         \/ now - buffer.started_at >= buffer_window_minutes

\* Variant: the elapsed-time trigger also evaluated on an empty cache,
\* against the durable count.
should_summarize_time_fallback(c) ==
    LET buffer == buffers[c]
        durable == Len(get_buffer_from_db(c))
    IN
    IF ~buffer.present \/ buffer.messages = <<>>
    THEN \/ durable >= min_messages_for_summary
         \/ /\ buffer.present
            /\ now - buffer.started_at >= buffer_window_minutes
            /\ durable >= TimeFloor
    ELSE \/ Len(buffer.messages) >= min_messages_for_summary
         \/ /\ now - buffer.started_at >= buffer_window_minutes
            /\ Len(buffer.messages) >= TimeFloor

\* BufferService.should_summarize
should_summarize(c) ==
    LET buffer == buffers[c] IN
    IF ~buffer.present \/ buffer.messages = <<>>
    THEN Len(get_buffer_from_db(c)) >= min_messages_for_summary
    ELSE \/ Len(buffer.messages) >= min_messages_for_summary
         \/ /\ now - buffer.started_at >= buffer_window_minutes
            /\ Len(buffer.messages) >= TimeFloor

\* Variant: the cache preferred over the durable query.
get_messages_for_summary_cache_first(c) ==
    IF buffers[c].present /\ buffers[c].messages # <<>>
    THEN buffers[c].messages
    ELSE get_buffer_from_db(c)

\* BufferService.get_messages_for_summary
get_messages_for_summary(c) ==
    LET db == get_buffer_from_db(c) IN
    IF db # <<>> THEN db
    ELSE IF buffers[c].present THEN buffers[c].messages ELSE <<>>

\* BufferService.clear_buffer on the cache; at is the datetime.utcnow() that
\* the new buffer gets as started_at.
clear_buffer(bufs, c, at) ==
    IF bufs[c].present THEN [bufs EXCEPT ![c] = MessageBuffer(at)] ELSE bufs

\* ------------------------------------------------------------------------
\* Initial state: a freshly started process.  The cache is empty; the
\* store holds what an earlier lifetime of the process left in it.
\* ------------------------------------------------------------------------
\* A channel that reached the count threshold just before the start.
BusyBacklog ==
    [i \in 1..min_messages_for_summary |->
        IF i < min_messages_for_summary THEN StartMinute - ShortStep
                                        ELSE StartMinute]

EmptyStore == [c \in ChannelSet |-> <<>>]
OneBusy == [c \in ChannelSet |-> IF c = "c1" THEN BusyBacklog ELSE <<>>]
BothBusy == [c \in ChannelSet |-> BusyBacklog]

NoProbe == [op |-> "none"]

\* A handler of the pass that is not running.  While it runs: the index of
\* the next channel, the suggestions collected so far (all_results),
\* what the pass found at its start and has persisted since, and whether
\* one of its quota checks found the quota used up.
IdlePass == [pc |-> "idle", idx |-> 0, all_results |-> <<>>,
             start_today |-> 0, start_at |-> 0, persisted |-> 0,
             exhausted |-> FALSE]

\* The force handler that is not running.  While it awaits a delivery:
\* the id of the suggestion it is sending.
IdleForce == [pc |-> "idle", idx |-> 0, suggestion_id |-> 0]

InitWith(backlogs) ==
    /\ now = StartMinute
    /\ ticks = 0
    /\ db_messages \in backlogs
    /\ buffers = [c \in ChannelSet |-> NoBuffer]
    /\ db_summaries = <<>>
    /\ db_suggestions = <<>>
    /\ pass = [t \in PassIds |-> IdlePass]
    /\ force = IdleForce
    /\ loop = "free"
    /\ runs = 0
    /\ received = 0
    /\ probe = NoProbe
    /\ suggestion_message_map = <<>>
    /\ rewriting = EmptyBag

Init == InitWith({OneBusy, BothBusy})

InitBuf == InitWith({EmptyStore, OneBusy})

\* ------------------------------------------------------------------------
\* Environment: the clock and the Slack messages
\* ------------------------------------------------------------------------
\* Time passes (also while a handler holds the event loop: the LLM and the
\* store calls block).
Tick(d) ==
    /\ now' = now + d
    /\ ticks' = ticks + 1
    /\ probe' = IF probe.op = "clear_buffer" THEN probe ELSE NoProbe
    /\ UNCHANGED <<db_messages, buffers, db_summaries, db_suggestions,
                   pass, force, loop, runs, received,
                   suggestion_message_map, rewriting>>

\* SlackBot._handle_channel_message -> BufferService.add_message: the row
\* is inserted with timestamp utcnow(), then the message is cached.
AddMessage(c) ==
    /\ loop = "free"
    /\ db_messages' = [db_messages EXCEPT ![c] = Append(@, now)]
    /\ buffers' = add_message(buffers, c,
                              [message_id |-> Len(db_messages[c]) + 1,
                               channel_id |-> c, timestamp |-> now])
    /\ received' = received + 1
    /\ probe' = NoProbe
    /\ UNCHANGED <<now, ticks, db_summaries, db_suggestions, pass, force,
                   loop, runs, suggestion_message_map, rewriting>>

\* ------------------------------------------------------------------------
\* Direct calls of the BufferService operations (the buffer's interface)
\* ------------------------------------------------------------------------
\* should_summarize(c), with what the cache and the store held at the call
ShouldSummarizeCall(c) ==
    /\ probe' = [op |-> "should_summarize", channel_id |-> c,
                 ready |-> should_summarize(c),
                 present |-> buffers[c].present,
                 cached |-> Len(buffers[c].messages),
                 elapsed |-> now - buffers[c].started_at,
                 durable |-> Len(get_messages_in_window(c, buffer_window_minutes))]
    /\ UNCHANGED <<now, ticks, db_messages, buffers, db_summaries,
                   db_suggestions, pass, force, loop, runs, received,
                   suggestion_message_map, rewriting>>

\* get_messages_for_summary(c), with what the cache and the store held
GetMessagesCall(c) ==
    /\ probe' = [op |-> "get_messages_for_summary", channel_id |-> c,
                 result |-> get_messages_for_summary(c),
                 durable |-> get_messages_in_window(c, buffer_window_minutes),
                 present |-> buffers[c].present,
                 cache |-> buffers[c].messages]
    /\ UNCHANGED <<now, ticks, db_messages, buffers, db_summaries,
                   db_suggestions, pass, force, loop, runs, received,
                   suggestion_message_map, rewriting>>

\* clear_buffer(c).  The probe remembers the buffer before the first of a
\* run of consecutive resets of the channel, and the time of the last one.
ClearBufferCall(c) ==
    LET again == probe.op = "clear_buffer" /\ probe.channel_id = c IN
    /\ buffers' = clear_buffer(buffers, c, now)
    /\ probe' = [op |-> "clear_buffer", channel_id |-> c,
                 again |-> again,
                 before |-> IF again THEN probe.before ELSE buffers[c],
                 first_at |-> IF again THEN probe.first_at ELSE now,
                 at |-> now]
    /\ UNCHANGED <<now, ticks, db_messages, db_summaries, db_suggestions,
                   pass, force, loop, runs, received,
                   suggestion_message_map, rewriting>>

\* The buffer's operations touch one channel each; the buffer is exercised
\* on one channel.
BufChannel == "c1"

NextBuf ==
    \/ \E d \in TimeSteps : ticks < MaxTicks /\ Tick(d)
    \/ received < MaxMessages /\ AddMessage(BufChannel)
    \/ ShouldSummarizeCall(BufChannel)
    \/ GetMessagesCall(BufChannel)
    \/ ClearBufferCall(BufChannel)

SpecBuf == InitBuf /\ [][NextBuf]_vars

\* ------------------------------------------------------------------------
\* The content pipeline (app/services/pipeline.py)
\* ------------------------------------------------------------------------
\* What the LLM boundary can answer to summarize_conversation: None (the
\* call failed), a summary with empty text, a summary with text.
SummaryOutcomes == {"none", "empty", "ok"}

\* Variant: any summary object, whatever its text.
Meaningful_any_summary(summary) == summary # "none"

\* not (not summary or not summary.summary)
Meaningful(summary) == summary = "ok"

\* Variant: the slots not reduced by today's suggestions.
remaining_slots_whole_quota(suggestions_today) ==
    max_suggestions_per_day

\* remaining_slots = max_suggestions_per_day - len(suggestions_today)
remaining_slots(suggestions_today) ==
    max_suggestions_per_day - suggestions_today

\* len(filtered_ideas[:remaining_slots])
ideas_to_process(filtered, suggestions_today) ==
    Min(filtered, remaining_slots(suggestions_today))

\* The outcomes of the loop over ideas_to_process: an idea whose drafts are
\* empty is skipped, the others are saved; save_suggestion may raise, for an
\* idea it was given, and ends the loop.
GenerationOutcomes(filtered, suggestions_today) ==
    LET n == ideas_to_process(filtered, suggestions_today) IN
    {o \in [saved : 0..n, raised : BOOLEAN] : o.raised => o.saved < n}

\* Database.save_summary: the inserted row
SummaryRow(c, messages) ==
    [channel_id |-> c, message_count |-> Len(messages),
     window_start |-> messages[1].timestamp,
     window_end |-> messages[Len(messages)].timestamp]

\* What generate_content can return: each draft is a text, or "" when its
\* LLM call failed.
GeneratedContents == [linkedin_draft : {"", "text"}, x_draft : {"", "text"}]

CompleteContent == [linkedin_draft |-> "text", x_draft |-> "text"]

\* GeneratorService.save_suggestion: the inserted row, in status pending.
\* created_at is the store's clock at the insert.
Suggestion(content, summary_id, created_at) ==
    [summary_id |-> summary_id, status |-> "pending",
     created_at |-> created_at,
     linkedin_draft |-> content.linkedin_draft, x_draft |-> content.x_draft]

\* The rows of the n ideas that process_channel saves: it saves an idea
\* only when neither of its drafts is empty.  created[i] is the time of the
\* i-th insert.
SuggestionRows(n, summary_id, created) ==
    [i \in 1..n |-> Suggestion(CompleteContent, summary_id, created[i])]

\* The LLM calls block the handler while the clock goes on: between the
\* clock readings of one call of process_channel (the reads at its entry,
\* the reset of the buffer after the summarizer call, each insert of a
\* suggestion after the detector, filter and draft calls) time may have
\* passed.  left is the number of clock steps the environment may still
\* take; the steps a call waits are taken from it.
CallSteps(left) == 0..left

\* The times of n inserts made one after the other, from time from on
InsertTimes(n, from, left) ==
    {created \in [1..n -> {from + k * ShortStep : k \in CallSteps(left)}] :
        \A i \in 1..(n - 1) : created[i] <= created[i + 1]}

\* The clock when the call has made its last reading
ClockAt(at) ==
    /\ now' = at
    /\ ticks' = ticks + (at - now) \div ShortStep

\* Variant: process_channel suspends (as it would on an awaited LLM call).
ReleaseLoop(t) == "free"

\* The handler that holds the event loop after one channel of a pass:
\* "await self.process_channel(channel_id)" runs a coroutine that never
\* suspends, so the pass keeps the loop.
HoldLoop(t) == t

\* The scheduler's job and the trigger endpoint start the same coroutine,
\* so an invocation is told from the other only by being alive with it: a
\* new invocation is "sched" unless that one is alive, and then "trig".
FreeSlot(t) ==
    /\ pass[t].pc = "idle"
    /\ t = "trig" => pass["sched"].pc # "idle"

\* scheduled_pipeline_run up to the first channel of process_all_channels,
\* started by the scheduler or by POST /api/trigger.
\* get_listening_channels, the first call of process_all_channels, may
\* raise: the error is logged by scheduled_pipeline_run, which returns.
PassStart(t) ==
    /\ loop = "free"
    /\ FreeSlot(t)
    /\ runs' = runs + 1
    /\ probe' = NoProbe
    /\ UNCHANGED <<now, ticks, db_messages, buffers, db_summaries,
                   db_suggestions, force, received,
                   suggestion_message_map, rewriting>>
    /\ \/ /\ loop' = t
          /\ pass' = [pass EXCEPT ![t] =
                        [IdlePass EXCEPT !.pc = "running", !.idx = 1,
                                         !.start_today = Len(get_suggestions_today),
                                         !.start_at = now]]
       \/ \* the store call raises
          UNCHANGED <<loop, pass>>

\* The pass after the channel at index idx: the next channel, or the end of
\* process_all_channels, where scheduled_pipeline_run goes on to deliver
\* the suggestions (awaiting the Slack API) and returns; with no suggestion
\* it returns without awaiting anything.
AfterChannel(t, p, idx) ==
    IF idx < Len(Channels)
    THEN /\ pass' = [pass EXCEPT ![t] = [p EXCEPT !.idx = idx + 1]]
         /\ loop' = HoldLoop(t)
    ELSE \* the handler awaits a delivery only if there is a suggestion
         /\ pass' = [pass EXCEPT ![t] =
                       IF p.all_results = <<>>
                       THEN IdlePass
                       ELSE [IdlePass EXCEPT !.idx = idx + 1, !.pc = "deliver",
                                             !.all_results = p.all_results]]
         /\ loop' = "free"

\* Variant: the quota check reading "more than".
quota_reached_strict(suggestions_today) ==
    suggestions_today > max_suggestions_per_day

\* len(suggestions_today) >= self.settings.max_suggestions_per_day
quota_reached(suggestions_today) ==
    suggestions_today >= max_suggestions_per_day

\* What detect_post_worthy can answer: the flag, and some ideas or none.
DetectionOutcomes == [is_post_worthy : BOOLEAN, ideas : 0..MaxIdeas]

\* Variant: the ideas alone decide.
PostWorthy_ideas_only(detection) == detection.ideas > 0

\* not (not detection.is_post_worthy or not detection.ideas)
PostWorthy(detection) == detection.is_post_worthy /\ detection.ideas > 0

\* Variant: "return results" after a reset of the channel's buffer.
ReturnAfterReset(t, p, idx, c) ==
    /\ AfterChannel(t, p, idx)
    /\ buffers' = clear_buffer(buffers, c, now)
    /\ UNCHANGED <<db_summaries, db_suggestions>>

\* "return results" before the summarizer is called (not ready, quota
\* reached, no messages): process_channel has done nothing but read.
ReturnResults(t, p, idx, c) ==
    /\ AfterChannel(t, p, idx)
    /\ UNCHANGED <<buffers, db_summaries, db_suggestions>>

\* Variant: no try/except around process_channel.  The exception leaves
\* process_all_channels and is caught by scheduled_pipeline_run.
Propagates(t, p, idx) ==
    /\ pass' = [pass EXCEPT ![t] = IdlePass]
    /\ loop' = "free"

\* process_channel raised: the except clause of process_all_channels logs
\* the error, all_results is not extended, the loop goes on.
CaughtPerChannel(t, p, idx) == AfterChannel(t, p, idx)

\* What follows the saved summary and the reset: detection; when it is
\* post-worthy, filter_ideas (which reads the store and may raise, and
\* leaves some of the ideas, in order) and the generation loop.
ChannelOutcomes(suggestions_today) ==
    UNION {IF ~PostWorthy(d)
           THEN {[is_post_worthy |-> d.is_post_worthy, no_ideas |-> d.ideas = 0,
                  saved |-> 0, raised |-> FALSE]}
           ELSE {[is_post_worthy |-> d.is_post_worthy, no_ideas |-> d.ideas = 0,
                  saved |-> o.saved, raised |-> o.raised] :
                    o \in {[saved |-> 0, raised |-> TRUE]} \cup
                          UNION {GenerationOutcomes(filtered, suggestions_today) :
                                    filtered \in 0..d.ideas}} :
           d \in DetectionOutcomes}

\* What a call of process_channel has seen and done when it has only read.
ReadStep(c) ==
    [ready |-> should_summarize(c),
     suggestions_today |-> Len(get_suggestions_today),
     checked_quota |-> FALSE, messages |-> <<>>, summary |-> "not_run",
     detected |-> FALSE, is_post_worthy |-> FALSE, no_ideas |-> TRUE,
     raised |-> FALSE, attempted |-> FALSE, resets |-> 0, reset_at |-> 0]

\* What one call of process_channel did: step is what it saw and did, p the
\* pass before the call, q the pass after it; filtered tells whether the
\* call reached filter_ideas (a post-worthy detection with ideas).
ChannelProbe(t, c, p, q, step) ==
    [op |-> "process_channel", pass_id |-> t, channel_id |-> c,
     index |-> p.idx, step |-> step,
     messages |-> step.messages, attempted |-> step.attempted,
     resets |-> step.resets,
     buffer_before |-> buffers[c],
     filtered |-> step.detected /\ step.is_post_worthy /\ ~step.no_ideas,
     summaries_before |-> Len(db_summaries),
     suggestions_before |-> Len(db_suggestions),
     results_before |-> p.all_results,
     exhausted_before |-> p.exhausted,
     persisted |-> q.persisted, start_today |-> q.start_today,
     start_at |-> q.start_at]

\* ContentPipeline.process_channel for the next channel of the pass, with
\* the try/except of process_all_channels around it.  The call reads the
\* store and the cache at its entry; the buffer is reset when the
\* summarizer call has returned, and each suggestion is inserted when its
\* drafts have been generated.
ProcessChannel(t, left) ==
    LET p == pass[t]
        idx == p.idx
        c == Channels[idx]
        suggestions_today == Len(get_suggestions_today)
        messages == get_messages_for_summary(c)
        read == ReadStep(c)
        checked == [read EXCEPT !.checked_quota = TRUE]
        summarized(summary) ==
            [checked EXCEPT !.messages = messages, !.summary = summary,
                            !.attempted = TRUE]
    IN
    /\ loop = t
    /\ p.pc = "running"
    /\ UNCHANGED <<db_messages, force, runs, received,
                   suggestion_message_map, rewriting>>
    /\ \/ \* a read of the store raises before anything is written
          /\ CaughtPerChannel(t, p, idx)
          /\ ClockAt(now)
          /\ probe' = ChannelProbe(t, c, p, p, [read EXCEPT !.raised = TRUE])
          /\ UNCHANGED <<buffers, db_summaries, db_suggestions>>
       \/ IF ~should_summarize(c)
          THEN /\ ReturnResults(t, p, idx, c)
               /\ ClockAt(now)
               /\ probe' = ChannelProbe(t, c, p, p, read)
          ELSE IF quota_reached(suggestions_today)
          THEN /\ ReturnResults(t, [p EXCEPT !.exhausted = TRUE], idx, c)
               /\ ClockAt(now)
               /\ probe' = ChannelProbe(t, c, p, p, checked)
          ELSE IF messages = <<>>
          THEN /\ ReturnResults(t, p, idx, c)
               /\ ClockAt(now)
               /\ probe' = ChannelProbe(t, c, p, p, checked)
          ELSE
            \E summary \in SummaryOutcomes, waited \in CallSteps(left) :
              LET reset_at == now + waited * ShortStep IN
              IF ~Meaningful(summary)
              THEN \* no meaningful summary: clear the buffer and return
                   /\ buffers' = clear_buffer(buffers, c, reset_at)
                   /\ ClockAt(reset_at)
                   /\ AfterChannel(t, p, idx)
                   /\ probe' = ChannelProbe(t, c, p, p,
                                  [summarized(summary) EXCEPT
                                      !.resets = 1, !.reset_at = reset_at])
                   /\ UNCHANGED <<db_summaries, db_suggestions>>
              ELSE
                \/ \* save_summary raises
                   /\ CaughtPerChannel(t, p, idx)
                   /\ ClockAt(reset_at)
                   /\ probe' = ChannelProbe(t, c, p, p,
                                  [summarized(summary) EXCEPT !.raised = TRUE])
                   /\ UNCHANGED <<buffers, db_summaries, db_suggestions>>
                \/ \* the summary is saved and the buffer cleared; then
                   \* detection, filtering and generation
                   \E o \in ChannelOutcomes(suggestions_today) :
                   \E created \in InsertTimes(o.saved, reset_at, left - waited) :
                     LET saved == o.saved
                         q == [p EXCEPT
                                 !.persisted = @ + saved,
                                 !.all_results =
                                     IF o.raised THEN @
                                     ELSE @ \o [i \in 1..saved |->
                                                  Len(db_suggestions) + i]]
                     IN
                     /\ db_summaries' =
                            Append(db_summaries, SummaryRow(c, messages))
                     /\ buffers' = clear_buffer(buffers, c, reset_at)
                     /\ db_suggestions' = db_suggestions \o
                            SuggestionRows(saved, Len(db_summaries) + 1, created)
                     /\ ClockAt(IF saved = 0 THEN reset_at ELSE created[saved])
                     /\ IF o.raised THEN CaughtPerChannel(t, q, idx)
                                    ELSE AfterChannel(t, q, idx)
                     /\ probe' = ChannelProbe(t, c, p, q,
                            [summarized(summary) EXCEPT
                                !.resets = 1, !.reset_at = reset_at,
                                !.detected = TRUE,
                                !.is_post_worthy = o.is_post_worthy,
                                !.no_ideas = o.no_ideas,
                                !.raised = o.raised])

\* What a post to Slack can do: return the timestamp of the new message,
\* or raise.
SendOutcomes == {"sent", "failed"}

\* Variant: the timestamp is not recorded.
send_suggestion_unmapped(map, suggestion_id, outcome) == map

\* SlackBot.send_suggestion on the map: a message that was posted gets the
\* next timestamp of the conversation, and the suggestion id is stored
\* under it; a failed post is logged and stores nothing.
send_suggestion(map, suggestion_id, outcome) ==
    IF outcome = "sent" THEN Append(map, suggestion_id) ELSE map

\* scheduled_pipeline_run after process_all_channels: the suggestions are
\* sent to the founder one after the other.  Each send awaits the Slack API
\* (conversations.open, chat.postMessage) and stores its map entry before
\* the next send begins; while the handler awaits, the event loop runs the
\* other handlers.  This is the send of the next suggestion; all_results
\* holds the suggestions still to send, and after the last the handler
\* returns.
Deliver(t, sends) ==
    LET ids == pass[t].all_results
        suggestion_id == Head(ids)
    IN
    /\ loop = "free"
    /\ pass[t].pc = "deliver"
    /\ pass' = [pass EXCEPT ![t] =
                  IF Len(ids) = 1 THEN IdlePass
                  ELSE [@ EXCEPT !.all_results = Tail(ids)]]
    /\ \E outcome \in sends :
          /\ suggestion_message_map' =
                 send_suggestion(suggestion_message_map, suggestion_id, outcome)
          /\ probe' = [op |-> "deliver", ids |-> <<suggestion_id>>,
                       outcomes |-> <<outcome>>,
                       map_before |-> suggestion_message_map]
    /\ UNCHANGED <<now, ticks, db_messages, buffers, db_summaries,
                   db_suggestions, force, loop, runs, received, rewriting>>

\* ------------------------------------------------------------------------
\* POST /api/trigger/force (app/main.py, force_trigger_pipeline)
\* ------------------------------------------------------------------------
\* The handler has no try/except: db.get_listening_channels, its first
\* store call, may raise and end it.
ForceStart ==
    /\ loop = "free"
    /\ force.pc = "idle"
    /\ runs' = runs + 1
    /\ probe' = NoProbe
    /\ UNCHANGED <<now, ticks, db_messages, buffers, db_summaries,
                   db_suggestions, pass, received,
                   suggestion_message_map, rewriting>>
    /\ \/ /\ loop' = "force"
          /\ force' = [IdleForce EXCEPT !.pc = "running", !.idx = 1]
       \/ \* the store call raises
          UNCHANGED <<loop, force>>

\* The handler after the channel at index idx: the next channel, or return.
ForceAfterChannel(f, idx) ==
    IF idx < Len(Channels)
    THEN /\ force' = [IdleForce EXCEPT !.idx = idx + 1, !.pc = "running"]
         /\ loop' = "force"
    ELSE /\ force' = IdleForce
         /\ loop' = "free"

\* A store call raised: the exception ends the handler.
ForceRaised ==
    /\ force' = IdleForce
    /\ loop' = "free"

\* What one turn of the force handler's loop did.  The handler goes from
\* detect_post_worthy to generate_content: filter_ideas is not called.
ForceProbe(c, attempted, resets, raised) ==
    [op |-> "force_channel", channel_id |-> c,
     attempted |-> attempted, resets |-> resets, raised |-> raised,
     suggestions_before |-> Len(db_suggestions), filtered |-> FALSE]

\* One turn of the loop over the channels, up to its await, its continue or
\* the exception of a store call, which ends the handler.  contents is what
\* generate_content may return for the idea; the handler saves it without
\* looking at the drafts.  The clock goes on while the LLM calls block.
ForceChannel(contents, left) ==
    LET idx == force.idx
        c == Channels[idx]
        messages == get_buffer_from_db(c)
    IN
    /\ loop = "force"
    /\ force.pc = "running"
    /\ UNCHANGED <<db_messages, pass, runs, received,
                   suggestion_message_map, rewriting>>
    /\ \/ \* get_buffer_from_db raises
          /\ ForceRaised
          /\ ClockAt(now)
          /\ probe' = ForceProbe(c, FALSE, 0, TRUE)
          /\ UNCHANGED <<buffers, db_summaries, db_suggestions>>
       \/ IF messages = <<>>
          THEN /\ ForceAfterChannel(force, idx)
               /\ ClockAt(now)
               /\ probe' = ForceProbe(c, FALSE, 0, FALSE)
               /\ UNCHANGED <<buffers, db_summaries, db_suggestions>>
          ELSE
            \E summary \in SummaryOutcomes, waited \in CallSteps(left) :
              LET reset_at == now + waited * ShortStep IN
              IF summary = "none"
              THEN \* summarization failed: continue
                   /\ ForceAfterChannel(force, idx)
                   /\ ClockAt(reset_at)
                   /\ probe' = ForceProbe(c, TRUE, 0, FALSE)
                   /\ UNCHANGED <<buffers, db_summaries, db_suggestions>>
              ELSE
                \/ \* save_summary raises
                   /\ ForceRaised
                   /\ ClockAt(reset_at)
                   /\ probe' = ForceProbe(c, TRUE, 0, TRUE)
                   /\ UNCHANGED <<buffers, db_summaries, db_suggestions>>
                \/ \* summary saved, buffer cleared, nothing post-worthy
                   /\ db_summaries' = Append(db_summaries, SummaryRow(c, messages))
                   /\ buffers' = clear_buffer(buffers, c, reset_at)
                   /\ ForceAfterChannel(force, idx)
                   /\ ClockAt(reset_at)
                   /\ probe' = ForceProbe(c, TRUE, 1, FALSE)
                   /\ UNCHANGED db_suggestions
                \/ \* summary saved, buffer cleared, the first idea
                   \* generated; save_suggestion raises
                   /\ db_summaries' = Append(db_summaries, SummaryRow(c, messages))
                   /\ buffers' = clear_buffer(buffers, c, reset_at)
                   /\ ForceRaised
                   /\ ClockAt(reset_at)
                   /\ probe' = ForceProbe(c, TRUE, 1, TRUE)
                   /\ UNCHANGED db_suggestions
                \/ \* summary saved, buffer cleared, the first idea generated
                   \* and saved as it is, then the handler awaits the delivery
                   \E content \in contents :
                   \E created \in InsertTimes(ForceIdeasTaken, reset_at, left - waited) :
                   /\ db_summaries' = Append(db_summaries, SummaryRow(c, messages))
                   /\ buffers' = clear_buffer(buffers, c, reset_at)
                   /\ db_suggestions' = db_suggestions \o
                          [i \in 1..ForceIdeasTaken |->
                              Suggestion(content, Len(db_summaries) + 1,
                                         created[i])]
                   /\ ClockAt(created[ForceIdeasTaken])
                   /\ force' = [force EXCEPT !.pc = "send",
                                             !.suggestion_id =
                                                 Len(db_suggestions) + 1]
                   /\ loop' = "free"
                   /\ probe' = ForceProbe(c, TRUE, 1, FALSE)

\* The delivery of the force handler's suggestion returns.
ForceResume(sends) ==
    /\ loop = "free"
    /\ force.pc = "send"
    /\ ForceAfterChannel(force, force.idx)
    /\ \E outcome \in sends :
          /\ suggestion_message_map' =
                 send_suggestion(suggestion_message_map, force.suggestion_id,
                                 outcome)
          /\ probe' = [op |-> "deliver", ids |-> <<force.suggestion_id>>,
                       outcomes |-> <<outcome>>,
                       map_before |-> suggestion_message_map]
    /\ UNCHANGED <<now, ticks, db_messages, buffers, db_summaries,
                   db_suggestions, pass, runs, received, rewriting>>

\* ------------------------------------------------------------------------
\* The process: Slack events, the scheduler and the HTTP endpoints
\* ------------------------------------------------------------------------
Events == ticks + received + runs

\* In this specification Slack is out of reach: the posts of a delivery
\* raise and are logged, and the message map stays empty.  SpecFeedback
\* delivers with either outcome.
Next ==
    \/ Events < MaxEvents /\ Tick(ShortStep)
    \/ \E c \in ChannelSet : Events < MaxEvents /\ AddMessage(c)
    \/ \E t \in PassIds : Events < MaxEvents /\ PassStart(t)
    \/ \E t \in PassIds : ProcessChannel(t, MaxEvents - Events)
    \/ \E t \in PassIds : Deliver(t, {"failed"})
    \/ Events < MaxEvents /\ ForceStart
    \/ ForceChannel({CompleteContent}, MaxEvents - Events)
    \/ ForceResume({"failed"})

Spec == Init /\ [][Next]_vars

\* The process in its normal run: messages arrive on one channel while the
\* clock advances, and the scheduler starts the pass.
NextLive ==
    \/ \E d \in TimeSteps : ticks < MaxTicks /\ Tick(d)
    \/ received < MaxMessages /\ AddMessage(BufChannel)
    \/ runs < MaxLiveRuns /\ PassStart("sched")
    \/ ProcessChannel("sched", MaxTicks - ticks)
    \/ Deliver("sched", {"sent"})

SpecLive == InitWith({EmptyStore}) /\ [][NextLive]_vars

\* The force endpoint called again and again.
NextForce ==
    \/ ticks < MaxTicks /\ Tick(ShortStep)
    \/ runs < MaxForceRuns /\ ForceStart
    \/ ForceChannel({CompleteContent}, MaxTicks - ticks)
    \/ ForceResume({"sent"})

SpecForce == InitWith({BothBusy}) /\ [][NextForce]_vars

\* Both pipelines while either draft generation call may fail.
NextDrafts ==
    \/ runs < MaxDraftRuns /\ PassStart("sched")
    \/ ProcessChannel("sched", 0)
    \/ Deliver("sched", {"sent"})
    \/ runs < MaxDraftRuns /\ ForceStart
    \/ ForceChannel(GeneratedContents, 0)
    \/ ForceResume({"sent"})

SpecDrafts == InitWith({BothBusy}) /\ [][NextDrafts]_vars

\* ------------------------------------------------------------------------
\* SummarizerService.process_channel and process_all_channels
\* (app/services/summarizer.py): the service's own way through a ready
\* channel.  No handler of the process calls them; ContentPipeline walks the
\* same steps itself, with the quota check between them.
\* ------------------------------------------------------------------------
\* What one call of SummarizerService.process_channel saw and did; returned
\* tells whether it returned a saved summary record (and not None).
SummarizerProbe(c, messages, summary, returned, raised, resets, reset_at) ==
    [op |-> "summarizer_process_channel", channel_id |-> c,
     ready |-> should_summarize(c), messages |-> messages,
     summary |-> summary, returned |-> returned, raised |-> raised,
     resets |-> resets, reset_at |-> reset_at,
     suggestions_today |-> Len(get_suggestions_today),
     buffer_before |-> buffers[c],
     summaries_before |-> Len(db_summaries)]

\* SummarizerService.process_channel(c).  There is no quota check and no
\* try/except: a store call that raises ends the call with the exception.
\* process_all_channels is this call for each listening channel, in the
\* order of the table, ended by the first call that raises.
SummarizerProcessChannel(c, left) ==
    LET messages == get_messages_for_summary(c) IN
    /\ loop = "free"
    /\ runs' = runs + 1
    /\ UNCHANGED <<db_messages, db_suggestions, pass, force, loop, received,
                   suggestion_message_map, rewriting>>
    /\ \/ \* a read of the store raises
          /\ ClockAt(now)
          /\ probe' = SummarizerProbe(c, <<>>, "not_run", FALSE, TRUE, 0, 0)
          /\ UNCHANGED <<buffers, db_summaries>>
       \/ IF ~should_summarize(c) \/ messages = <<>>
          THEN /\ ClockAt(now)
               /\ probe' = SummarizerProbe(c, <<>>, "not_run", FALSE, FALSE, 0, 0)
               /\ UNCHANGED <<buffers, db_summaries>>
          ELSE
            \E summary \in SummaryOutcomes, waited \in CallSteps(left) :
              LET reset_at == now + waited * ShortStep IN
              /\ ClockAt(reset_at)
              /\ IF ~Meaningful(summary)
                 THEN \* no meaningful summary: clear the buffer, return None
                      /\ buffers' = clear_buffer(buffers, c, reset_at)
                      /\ probe' = SummarizerProbe(c, messages, summary, FALSE,
                                                  FALSE, 1, reset_at)
                      /\ UNCHANGED db_summaries
                 ELSE
                   \/ \* save_summary raises
                      /\ probe' = SummarizerProbe(c, messages, summary, FALSE,
                                                  TRUE, 0, 0)
                      /\ UNCHANGED <<buffers, db_summaries>>
                   \/ \* the summary is saved, the buffer cleared
                      /\ db_summaries' =
                             Append(db_summaries, SummaryRow(c, messages))
                      /\ buffers' = clear_buffer(buffers, c, reset_at)
                      /\ probe' = SummarizerProbe(c, messages, summary, TRUE,
                                                  FALSE, 1, reset_at)

\* The summarizer called on the channels while messages arrive and the pass
\* of the pipeline fills the day's quota.
NextSummarizer ==
    \/ ticks < MaxTicks /\ Tick(ShortStep)
    \/ \E c \in ChannelSet :
          runs < MaxSummaryRuns /\ SummarizerProcessChannel(c, MaxTicks - ticks)
    \/ runs < MaxSummaryRuns /\ PassStart("sched")
    \/ ProcessChannel("sched", MaxTicks - ticks)
    \/ Deliver("sched", {"sent"})

SpecSummarizer == InitWith({OneBusy, BothBusy}) /\ [][NextSummarizer]_vars

\* ------------------------------------------------------------------------
\* Reviewer feedback (app/slack_handler.py, SlackBot._handle_reaction)
\* ------------------------------------------------------------------------
\* The reactions the handler knows (thumbs up, rewrite, reject) and one it
\* does not.
Reactions == {"+1", "arrows_counterclockwise", "x", "eyes"}

\* self._suggestion_message_map.get(message_ts)
lookup_suggestion(ts) ==
    IF ts \in 1..Len(suggestion_message_map)
    THEN suggestion_message_map[ts] ELSE 0

\* Variant: the UPDATE without its WHERE clause.
update_suggestion_status_everywhere(rows, suggestion_id, status) ==
    [i \in 1..Len(rows) |-> [rows[i] EXCEPT !.status = status]]

\* Database.update_suggestion_status: UPDATE ... SET status WHERE id = ...
update_suggestion_status(rows, suggestion_id, status) ==
    IF suggestion_id \in 1..Len(rows)
    THEN [rows EXCEPT ![suggestion_id].status = status] ELSE rows

\* What the model call of a rewrite yields: a draft that survives the
\* cleanup, one that the cleanup empties, or an exception.
RewriteAnswers == {"fresh", "emptied", "fail"}

\* GeneratorService.rewrite_linkedin / rewrite_x on a stored draft
rewrite_draft(original_draft, answer) ==
    CASE answer = "fail" -> original_draft
      [] answer = "emptied" -> ""
      [] OTHER -> "fresh"

\* Variant: the rewrite marks the original as rewritten.
rewrite_rows_marking(rows, suggestion_id) ==
    update_suggestion_status(rows, suggestion_id, "rewritten")

\* SlackBot._rewrite_suggestion on the suggestions table: it reads the
\* suggestion and writes nothing.
rewrite_rows(rows, suggestion_id) == rows

\* What one reaction event found and did.  status_before, rows_before and
\* map_before are what the handler read when the event arrived; outcome is
\* "awaiting" while the handler is suspended at the post of its rewrite.
ReactionProbe(ts, reaction, suggestion_id, writes, raised, drafts, outcome) ==
    [op |-> "reaction", ts |-> ts, reaction |-> reaction,
     suggestion_id |-> suggestion_id,
     status_before |-> IF suggestion_id \in 1..Len(db_suggestions)
                       THEN db_suggestions[suggestion_id].status ELSE "none",
     rows_before |-> db_suggestions, map_before |-> suggestion_message_map,
     writes |-> writes, raised |-> raised, drafts |-> drafts,
     outcome |-> outcome]

NoDrafts == [linkedin_draft |-> "", x_draft |-> ""]

\* SlackBot._handle_reaction for a reaction on the message with timestamp
\* ts, from the event to the handler's first await.  A save or a reject
\* writes the status and has nothing left to do after its await (the
\* confirmation of a save is posted in a try that logs).  A rewrite reads
\* the map and the row, calls the model twice and is suspended at
\* chat_postMessage; RewriteResume is its continuation.  The handler has no
\* try around its store calls: an exception of the store leaves it.  It
\* reads no clock, and the row it asks for exists: no row is ever deleted.
HandleReaction(ts, reaction) ==
    LET suggestion_id == lookup_suggestion(ts) IN
    /\ loop = "free"
    /\ received' = received + 1
    /\ UNCHANGED <<now, ticks, db_messages, buffers, db_summaries, pass,
                   force, loop, runs>>
    /\ IF suggestion_id = 0
       THEN \* not a suggestion message: return
            /\ probe' = ReactionProbe(ts, reaction, 0, 0, FALSE, NoDrafts, "none")
            /\ UNCHANGED <<db_suggestions, suggestion_message_map, rewriting>>
       ELSE IF reaction \in {"+1", "x"}
       THEN LET status == IF reaction = "+1" THEN "saved" ELSE "ignored" IN
            /\ UNCHANGED <<suggestion_message_map, rewriting>>
            /\ \/ \* the status is written (and, for a save, confirmed)
                  /\ db_suggestions' = update_suggestion_status(
                                           db_suggestions, suggestion_id, status)
                  /\ probe' = ReactionProbe(ts, reaction, suggestion_id, 1,
                                            FALSE, NoDrafts, "none")
               \/ \* the store call raises
                  /\ probe' = ReactionProbe(ts, reaction, suggestion_id, 0,
                                            TRUE, NoDrafts, "none")
                  /\ UNCHANGED db_suggestions
       ELSE IF reaction = "arrows_counterclockwise"
       THEN \* _rewrite_suggestion
            \/ \* db.get_suggestion raises: nothing is generated or posted
               /\ probe' = ReactionProbe(ts, reaction, suggestion_id, 0,
                                         TRUE, NoDrafts, "none")
               /\ UNCHANGED <<db_suggestions, suggestion_message_map,
                              rewriting>>
            \/ \* new drafts from the stored ones; the post is awaited
               \E linkedin_answer \in RewriteAnswers,
                  x_answer \in RewriteAnswers :
                 LET row == db_suggestions[suggestion_id]
                     drafts == [linkedin_draft |->
                                    rewrite_draft(row.linkedin_draft,
                                                  linkedin_answer),
                                x_draft |-> rewrite_draft(row.x_draft, x_answer)]
                     started == ReactionProbe(ts, reaction, suggestion_id, 0,
                                              FALSE, drafts, "awaiting")
                 IN
                 /\ db_suggestions' = rewrite_rows(db_suggestions, suggestion_id)
                 /\ rewriting' = rewriting (+) SetToBag({started})
                 /\ probe' = started
                 /\ UNCHANGED suggestion_message_map
       ELSE \* any other reaction
            /\ probe' = ReactionProbe(ts, reaction, suggestion_id, 0, FALSE,
                                      NoDrafts, "none")
            /\ UNCHANGED <<db_suggestions, suggestion_message_map, rewriting>>

\* SlackBot.send_suggestion of a rewrite after its await: the post of the
\* i-th suspended rewrite returns or raises.  A post that returned stores
\* the suggestion id the handler looked up under the timestamp of the new
\* message, in the map as it is now; a post that raised is logged.  The
\* step reports what the handler read when its event arrived.
RewriteResume(started) ==
    /\ loop = "free"
    /\ BagIn(started, rewriting)
    /\ rewriting' = rewriting (-) SetToBag({started})
    /\ \E outcome \in SendOutcomes :
          /\ suggestion_message_map' =
                 send_suggestion(suggestion_message_map,
                                 started.suggestion_id, outcome)
          /\ probe' = [started EXCEPT !.outcome = outcome]
    /\ UNCHANGED <<now, ticks, db_messages, buffers, db_summaries,
                   db_suggestions, pass, force, loop, runs, received>>

\* The pass produces suggestions and delivers them; the reviewer reacts to
\* the messages, and to one that is not a suggestion.
NextFeedback ==
    \/ runs + received < MaxFeedbackEvents /\ PassStart("sched")
    \/ ProcessChannel("sched", 0)
    \/ Deliver("sched", SendOutcomes)
    \/ \E ts \in 1..(Len(suggestion_message_map) + 1), reaction \in Reactions :
          runs + received < MaxFeedbackEvents /\ HandleReaction(ts, reaction)
    \/ \E started \in BagToSet(rewriting) : RewriteResume(started)

SpecFeedback == InitWith({OneBusy}) /\ [][NextFeedback]_vars

\* The same process under the scheduling of the event loop: a handler that
\* awaits its posts to Slack is resumed when they return or raise.
SpecDelivery ==
    /\ SpecFeedback
    /\ WF_vars(Deliver("sched", SendOutcomes))
    /\ WF_vars(\E started \in BagToSet(rewriting) : RewriteResume(started))

\* ---- DetectorService: filtering the ideas of one detection ----

\* An idea is its core_insight.
Insights == {"a", "b"}

\* Sequences over S of length at most n
SeqsUpTo(S, n) == UNION {[1..k -> S] : k \in 0..n}

\* The insights of the saved suggestions that filter_ideas reads first
SavedInsights == {<<>>, <<"x">>}

\* What the model call of check_duplicate yields: is_duplicate true, false
\* (or absent), or an exception.
DuplicateAnswers == {"duplicate", "distinct", "fail"}

\* What the model call of check_sensitivity yields: is_sensitive true, false
\* (or absent), or an exception.
SensitivityAnswers == {"sensitive", "safe", "fail"}

\* Variant: a failed call counts as a duplicate.
check_duplicate_fail_closed(existing_insights, answer) ==
    [called |-> existing_insights # <<>>,
     result |-> existing_insights # <<>> /\ answer \in {"duplicate", "fail"}]

\* check_duplicate: no call on an empty list; False when the call fails
check_duplicate(existing_insights, answer) ==
    [called |-> existing_insights # <<>>,
     result |-> existing_insights # <<>> /\ answer = "duplicate"]

\* Variant: a failed call counts as not sensitive.
check_sensitivity_fail_open(answer) == answer = "sensitive"

\* check_sensitivity: True when the call fails
check_sensitivity(answer) == answer \in {"sensitive", "fail"}

\* Variant: the surviving idea is not remembered.
cross_check_forgets(existing_insights, insight) == existing_insights

\* existing_insights.append(idea.core_insight)
cross_check(existing_insights, insight) == Append(existing_insights, insight)

\* Variant: the sensitivity check made for every idea.
sensitivity_checked_always(is_dup) == TRUE

\* "if self.check_duplicate(...): continue" stands before the sensitivity
\* check: a duplicate does not reach it.
sensitivity_checked(is_dup) == ~is_dup

\* The loop of filter_ideas from idea i on.  trace keeps, for each idea,
\* the list it was checked against, the calls made and their results, and
\* the two lists after it.
RECURSIVE filter_loop(_, _, _, _, _, _, _)
filter_loop(ideas, dup_answers, sens_answers, i, filtered, existing_insights, trace) ==
    IF i > Len(ideas)
    THEN [filtered |-> filtered, existing_insights |-> existing_insights,
          trace |-> trace]
    ELSE
      LET dup == check_duplicate(existing_insights, dup_answers[i])
          sens_called == sensitivity_checked(dup.result)
          is_sensitive == sens_called /\ check_sensitivity(sens_answers[i])
          kept == ~dup.result /\ ~is_sensitive
          filtered2 == IF kept THEN Append(filtered, ideas[i]) ELSE filtered
          existing2 == IF kept THEN cross_check(existing_insights, ideas[i])
                       ELSE existing_insights
      IN filter_loop(ideas, dup_answers, sens_answers, i + 1, filtered2,
                     existing2,
                     Append(trace,
                            [seen |-> existing_insights,
                             dup_called |-> dup.called,
                             is_dup |-> dup.result,
                             sens_called |-> sens_called,
                             is_sensitive |-> is_sensitive,
                             kept |-> kept,
                             filtered_after |-> filtered2,
                             existing_after |-> existing2]))

\* filter_ideas, given the saved insights read from the store and the
\* answer each idea's model calls would get
filter_ideas(ideas, saved, dup_answers, sens_answers) ==
    filter_loop(ideas, dup_answers, sens_answers, 1, <<>>, saved, <<>>)

\* filter_ideas called on a batch of ideas
FilterIdeasCall ==
    /\ probe = NoProbe
    /\ \E ideas \in SeqsUpTo(Insights, MaxBatch), saved \in SavedInsights :
       \E dup_answers \in [1..Len(ideas) -> DuplicateAnswers],
          sens_answers \in [1..Len(ideas) -> SensitivityAnswers] :
         probe' = [op |-> "filter_ideas", ideas |-> ideas, saved |-> saved,
                   dup_answers |-> dup_answers,
                   sens_answers |-> sens_answers,
                   result |-> filter_ideas(ideas, saved, dup_answers,
                                           sens_answers)]
    /\ UNCHANGED <<now, ticks, db_messages, buffers, db_summaries,
                   db_suggestions, pass, force, loop, runs, received,
                   suggestion_message_map, rewriting>>

\* The caller takes the filtered ideas.
FilterIdeasReturn ==
    /\ probe.op = "filter_ideas"
    /\ probe' = NoProbe
    /\ UNCHANGED <<now, ticks, db_messages, buffers, db_summaries,
                   db_suggestions, pass, force, loop, runs, received,
                   suggestion_message_map, rewriting>>

NextFilter ==
    \/ FilterIdeasCall
    \/ FilterIdeasReturn

SpecFilter == InitWith({EmptyStore}) /\ [][NextFilter]_vars

\* ------------------------------------------------------------------------
\* The services around one model call (detector, summarizer, generator)
\* ------------------------------------------------------------------------
\* What LLMClient.complete_json can do: the API call raises, json.loads
\* raises on the content, the content is JSON but not an object, or it is
\* an object.
JsonKinds == {"call_fails", "bad_json", "not_object", "object"}

\* The answers to the post-worthiness prompt.  In an object, is_post_worthy
\* is absent, a boolean, or a value PostWorthinessResult rejects; ideas is
\* absent, a list of count well-formed ideas, a list with an item that
\* is not a well-formed idea, a value that is no list and has nothing to
\* iterate over (an empty object, an empty string), or another value that
\* is no list (null, a number, a non-empty object or string).
DetectAnswers ==
    {[kind |-> k, is_post_worthy |-> "absent", ideas |-> "absent", count |-> 0] :
        k \in JsonKinds \ {"object"}}
    \cup
    {[kind |-> "object", is_post_worthy |-> w, ideas |-> i, count |-> 0] :
        w \in {"absent", "true", "false", "invalid"},
        i \in {"absent", "bad_item", "empty_not_list", "not_list"}}
    \cup
    {[kind |-> "object", is_post_worthy |-> w, ideas |-> "list", count |-> n] :
        w \in {"absent", "true", "false", "invalid"}, n \in 0..MaxIdeas}

\* PostWorthinessResult(is_post_worthy=False, ideas=[]), returned
DetectionFailed == [raised |-> FALSE, is_post_worthy |-> FALSE, ideas |-> 0]

\* Variant: the result is parsed outside the try block.
detect_post_worthy_parsing_unguarded(answer) ==
    IF answer.kind \in {"call_fails", "bad_json"} THEN DetectionFailed
    ELSE IF \/ answer.kind = "not_object"
            \/ answer.ideas \in {"bad_item", "not_list"}
            \/ answer.is_post_worthy = "invalid"
    THEN [raised |-> TRUE, is_post_worthy |-> FALSE, ideas |-> 0]
    ELSE [raised |-> FALSE, is_post_worthy |-> answer.is_post_worthy = "true",
          ideas |-> answer.count]

\* DetectorService.detect_post_worthy: the call, the loop over the ideas and
\* the construction of the result are all inside the try block.  The loop
\* iterates over whatever the answer holds under "ideas": over an empty
\* object or string it makes no turn and nothing raises, and the result has
\* is_post_worthy as answered and no ideas (count is 0 for such an answer).
detect_post_worthy(answer) ==
    IF \/ answer.kind # "object"
       \/ answer.ideas \in {"bad_item", "not_list"}
       \/ answer.is_post_worthy = "invalid"
    THEN DetectionFailed
    ELSE [raised |-> FALSE, is_post_worthy |-> answer.is_post_worthy = "true",
          ideas |-> answer.count]

\* The answers to the summarizer prompt.  In an object, summary is absent,
\* a text, the empty text, or not a string; the four list fields are
\* absent, lists of strings, or something ConversationSummary rejects.
SummaryAnswers ==
    {[kind |-> k, summary |-> "absent", lists |-> "absent"] :
        k \in JsonKinds \ {"object"}}
    \cup
    [kind : {"object"}, summary : {"absent", "text", "blank", "invalid"},
     lists : {"absent", "valid", "invalid"}]

\* Variant: the prompt is built and the model called for no messages too.
summarize_conversation_always_calls(message_count, answer) ==
    IF \/ answer.kind # "object"
       \/ answer.summary = "invalid"
       \/ answer.lists = "invalid"
    THEN [called |-> TRUE, raised |-> FALSE, summary |-> "none"]
    ELSE [called |-> TRUE, raised |-> FALSE,
          summary |-> IF answer.summary = "text" THEN "ok" ELSE "empty"]

\* SummarizerService.summarize_conversation on message_count messages
summarize_conversation(message_count, answer) ==
    IF message_count = 0
    THEN [called |-> FALSE, raised |-> FALSE, summary |-> "none"]
    ELSE IF \/ answer.kind # "object"
            \/ answer.summary = "invalid"
            \/ answer.lists = "invalid"
    THEN [called |-> TRUE, raised |-> FALSE, summary |-> "none"]
    ELSE [called |-> TRUE, raised |-> FALSE,
          summary |-> IF answer.summary = "text" THEN "ok" ELSE "empty"]

\* ---- GeneratorService: texts ----
\* A text is a sequence of characters, one per class the cleaners tell
\* apart: "a" a word character, "c" a word character inside the stripped
\* ranges (U+4E2D lies in 24C2-1F251 and matches \w), "e" a code point of
\* the stripped ranges that is no word character (U+1F600), "#", " ", "n"
\* the newline, "." any other punctuation.
RawChars == {"a", "c", "e", "#", " ", "n"}
IsWord(ch) == ch \in {"a", "c"}
IsSpace(ch) == ch \in {" ", "n"}
IsEmoji(ch) == ch \in {"e", "c"}

\* if len(draft) > 280: draft = draft[:277] + "..."
XMaxLength == 280
XKeptLength == 277
TruncationMarker == <<".", ".", ".">>

\* n word characters
Fill(n) == [i \in 1..n |-> "a"]

\* str.strip()
RECURSIVE lstrip(_)
lstrip(text) ==
    IF text # <<>> /\ IsSpace(Head(text)) THEN lstrip(Tail(text)) ELSE text
RECURSIVE rstrip(_)
rstrip(text) ==
    IF text # <<>> /\ IsSpace(text[Len(text)])
    THEN rstrip(SubSeq(text, 1, Len(text) - 1))
    ELSE text
strip(text) == rstrip(lstrip(text))

\* emoji_pattern.sub('', draft)
remove_emoji(draft) == SelectSeq(draft, LAMBDA ch : ~IsEmoji(ch))

\* The first position from i on that is in hits, past the end if none
first_from(draft, i, hits) ==
    LET later == {j \in hits : j >= i}
    IN  IF later = {} THEN Len(draft) + 1
        ELSE CHOOSE j \in later : \A k \in later : j <= k

\* re.sub(r'#\w+', '', draft), and re.sub(r'#\w+\s*', '', draft) when
\* eat_space: from position i, the leftmost match starts at the first '#'
\* that a word character follows, takes every word character after it and,
\* when eat_space, every whitespace after those; the text before the match
\* is kept and the search goes on behind the match.
RECURSIVE sub_hashtags(_, _, _, _)
sub_hashtags(draft, i, eat_space, out) ==
    LET n == Len(draft)
        start == first_from(draft, i,
                     {j \in 1..(n - 1) : draft[j] = "#" /\ IsWord(draft[j + 1])})
        word_end == first_from(draft, start + 1,
                        {j \in 1..n : ~IsWord(draft[j])})
        match_end == IF eat_space
                     THEN first_from(draft, word_end,
                              {j \in 1..n : ~IsSpace(draft[j])})
                     ELSE word_end
    IN  IF start > n THEN out \o SubSeq(draft, i, n)
        ELSE sub_hashtags(draft, match_end, eat_space,
                          out \o SubSeq(draft, i, start - 1))

\* re.sub(r'\n{3,}', '\n\n', draft): the leftmost run of three newlines or
\* more is replaced by two, and the search goes on behind the run.
RECURSIVE collapse_newlines(_, _, _)
collapse_newlines(draft, i, out) ==
    LET n == Len(draft)
        start == first_from(draft, i,
                     {j \in 1..(n - 2) : /\ draft[j] = "n"
                                         /\ draft[j + 1] = "n"
                                         /\ draft[j + 2] = "n"})
        run_end == first_from(draft, start, {j \in 1..n : draft[j] # "n"})
    IN  IF start > n THEN out \o SubSeq(draft, i, n)
        ELSE collapse_newlines(draft, run_end,
                               out \o SubSeq(draft, i, start - 1) \o <<"n", "n">>)

\* GeneratorService._clean_linkedin_draft: emoji, then hashtags
clean_linkedin_draft(draft) ==
    strip(collapse_newlines(
        sub_hashtags(remove_emoji(draft), 1, FALSE, <<>>), 1, <<>>))

\* Variant of the ceiling: 280 characters kept before the marker.
truncate_keeping_limit(draft) ==
    IF Len(draft) > XMaxLength
    THEN SubSeq(draft, 1, XMaxLength) \o TruncationMarker
    ELSE draft

\* Ensure under 280 chars
truncate(draft) ==
    IF Len(draft) > XMaxLength
    THEN SubSeq(draft, 1, XKeptLength) \o TruncationMarker
    ELSE draft

\* GeneratorService._clean_x_draft: hashtags with the whitespace after
\* them, then emoji, then the ceiling
clean_x_draft(draft) ==
    strip(truncate(remove_emoji(sub_hashtags(draft, 1, TRUE, <<>>))))

\* What the model call of a draft yields: an exception, or a content.
ModelFailure == [ok |-> FALSE, content |-> <<>>]
LongRaws ==
    {head \o Fill(n) \o tail :
        head \in SeqsUpTo(RawChars, 1), tail \in SeqsUpTo(RawChars, 1),
        n \in (XMaxLength - 2)..(XMaxLength + MaxOver)}
ModelAnswers ==
    {ModelFailure}
    \cup [ok : {TRUE}, content : SeqsUpTo(RawChars, MaxRaw) \cup LongRaws]

\* LLMClient.complete
complete(answer) == strip(answer.content)

\* GeneratorService.generate_linkedin_post and generate_x_post
generate_linkedin_post(answer) ==
    IF answer.ok THEN clean_linkedin_draft(complete(answer)) ELSE <<>>
generate_x_post(answer) ==
    IF answer.ok THEN clean_x_draft(complete(answer)) ELSE <<>>

\* GeneratorService.rewrite_linkedin and rewrite_x
rewrite_linkedin(original_draft, answer) ==
    IF answer.ok THEN clean_linkedin_draft(complete(answer))
    ELSE original_draft
rewrite_x(original_draft, answer) ==
    IF answer.ok THEN clean_x_draft(complete(answer)) ELSE original_draft

\* The drafts a rewrite starts from are stored drafts, which first-time
\* generation produced: of a failed call, of a short text, of a long one.
OriginalAnswers ==
    {ModelFailure}
    \cup [ok : {TRUE},
          content : SeqsUpTo(RawChars, 1) \cup {Fill(XMaxLength + 1)}]
LinkedinOriginals == {generate_linkedin_post(a) : a \in OriginalAnswers}
XOriginals == {generate_x_post(a) : a \in OriginalAnswers}

\* generate_linkedin_post or generate_x_post called on an idea
GenerateCall ==
    /\ probe = NoProbe
    /\ \E answer \in ModelAnswers :
          \/ probe' = [op |-> "generate", form |-> "linkedin",
                       answer |-> answer, original_draft |-> <<>>,
                       draft |-> generate_linkedin_post(answer)]
          \/ probe' = [op |-> "generate", form |-> "x",
                       answer |-> answer, original_draft |-> <<>>,
                       draft |-> generate_x_post(answer)]
    /\ UNCHANGED <<now, ticks, db_messages, buffers, db_summaries,
                   db_suggestions, pass, force, loop, runs, received,
                   suggestion_message_map, rewriting>>

\* rewrite_linkedin or rewrite_x called on a stored draft
RewriteCall ==
    /\ probe = NoProbe
    /\ \E answer \in ModelAnswers :
          \/ \E original_draft \in LinkedinOriginals :
                probe' = [op |-> "rewrite", form |-> "linkedin",
                          answer |-> answer,
                          original_draft |-> original_draft,
                          draft |-> rewrite_linkedin(original_draft, answer)]
          \/ \E original_draft \in XOriginals :
                probe' = [op |-> "rewrite", form |-> "x",
                          answer |-> answer,
                          original_draft |-> original_draft,
                          draft |-> rewrite_x(original_draft, answer)]
    /\ UNCHANGED <<now, ticks, db_messages, buffers, db_summaries,
                   db_suggestions, pass, force, loop, runs, received,
                   suggestion_message_map, rewriting>>

\* Variant: one guard around the two calls; a failure empties the pair.
generate_content_one_guard(linkedin_answer, x_answer) ==
    IF linkedin_answer.ok /\ x_answer.ok
    THEN [raised |-> FALSE, x_called |-> linkedin_answer.ok,
          linkedin_draft |-> generate_linkedin_post(linkedin_answer),
          x_draft |-> generate_x_post(x_answer)]
    ELSE [raised |-> FALSE, x_called |-> linkedin_answer.ok,
          linkedin_draft |-> <<>>, x_draft |-> <<>>]

\* GeneratorService.generate_content: generate_linkedin_post, then
\* generate_x_post, each with its own guard, then the GeneratedContent
generate_content(linkedin_answer, x_answer) ==
    [raised |-> FALSE, x_called |-> TRUE,
     linkedin_draft |-> generate_linkedin_post(linkedin_answer),
     x_draft |-> generate_x_post(x_answer)]

\* generate_content called on an idea; either model call may fail.
GenerateContentCall ==
    /\ probe = NoProbe
    /\ \E linkedin_answer \in OriginalAnswers, x_answer \in OriginalAnswers :
          probe' = [op |-> "generate_content",
                    linkedin_answer |-> linkedin_answer,
                    x_answer |-> x_answer,
                    result |-> generate_content(linkedin_answer, x_answer)]
    /\ UNCHANGED <<now, ticks, db_messages, buffers, db_summaries,
                   db_suggestions, pass, force, loop, runs, received,
                   suggestion_message_map, rewriting>>

\* ---- ContentPipeline.process_channel: the generation loop ----
\* filtered_ideas[:remaining_slots], the today-count being the one read at
\* the quota check (below the quota, or process_channel had returned)
slice_ideas(filtered_ideas, suggestions_today) ==
    SubSeq(filtered_ideas, 1,
           Min(Len(filtered_ideas), remaining_slots(suggestions_today)))

\* What save_suggestion can do for an idea it is given
SaveOutcomes == {"saved", "raises"}

\* The loop over ideas_to_process from the i-th idea on: generate_content,
\* continue when a draft is empty, else save_suggestion and append.  An
\* exception of save_suggestion leaves the loop and process_channel.
RECURSIVE generation_loop(_, _, _, _, _)
generation_loop(ideas, contents, saves, i, done) ==
    IF i > Len(ideas) THEN done
    ELSE
      LET attempted == Append(done.attempted, ideas[i]) IN
      IF contents[i].linkedin_draft = "" \/ contents[i].x_draft = ""
      THEN generation_loop(ideas, contents, saves, i + 1,
                           [done EXCEPT !.attempted = attempted])
      ELSE IF saves[i] = "raises"
      THEN [done EXCEPT !.attempted = attempted, !.raised = TRUE]
      ELSE generation_loop(ideas, contents, saves, i + 1,
                           [done EXCEPT !.attempted = attempted,
                                        !.results = Append(@, ideas[i])])

\* Step 4 of process_channel on the filtered ideas
generate_for_ideas(filtered_ideas, suggestions_today, contents, saves) ==
    generation_loop(slice_ideas(filtered_ideas, suggestions_today),
                    contents, saves, 1,
                    [attempted |-> <<>>, results |-> <<>>, raised |-> FALSE])

\* Step 4 of process_channel reached with some filtered ideas.  The call
\* has saved its summary, the last row of the summaries table, and no
\* suggestion of that summary exists yet; suggestions_today is the count it
\* read at its quota check, which was below the quota.  Each idea that is
\* saved is a row of the suggestions table, and the rows saved before
\* save_suggestion raises stay.
GenerationLoopCall ==
    LET summary_id == Len(db_summaries)
        suggestions_today == Len(get_suggestions_today)
    IN
    /\ probe = NoProbe
    /\ summary_id >= 1
    /\ \A i \in 1..Len(db_suggestions) :
           db_suggestions[i].summary_id # summary_id
    /\ suggestions_today < max_suggestions_per_day
    /\ \E filtered_ideas \in SeqsUpTo(Insights, MaxBatch) \ {<<>>} :
       \E contents \in [1..Len(filtered_ideas) -> GeneratedContents],
          saves \in [1..Len(filtered_ideas) -> SaveOutcomes] :
         LET result == generate_for_ideas(filtered_ideas, suggestions_today,
                                          contents, saves)
             saved == Len(result.results)
         IN
         /\ probe' = [op |-> "generation_loop",
                      filtered_ideas |-> filtered_ideas,
                      suggestions_today |-> suggestions_today,
                      contents |-> contents, saves |-> saves,
                      result |-> result]
         /\ db_suggestions' = db_suggestions \o
                SuggestionRows(saved, summary_id, [i \in 1..saved |-> now])
    /\ UNCHANGED <<now, ticks, db_messages, buffers, db_summaries,
                   pass, force, loop, runs, received,
                   suggestion_message_map, rewriting>>

\* detect_post_worthy called on a summary
DetectCall ==
    /\ probe = NoProbe
    /\ \E answer \in DetectAnswers :
          probe' = [op |-> "detect_post_worthy", answer |-> answer,
                    result |-> detect_post_worthy(answer)]
    /\ UNCHANGED <<now, ticks, db_messages, buffers, db_summaries,
                   db_suggestions, pass, force, loop, runs, received,
                   suggestion_message_map, rewriting>>

\* summarize_conversation called on no message or on some
SummarizeCall ==
    /\ probe = NoProbe
    /\ \E message_count \in {0, min_messages_for_summary},
          answer \in SummaryAnswers :
          probe' = [op |-> "summarize_conversation",
                    message_count |-> message_count, answer |-> answer,
                    result |-> summarize_conversation(message_count, answer)]
    /\ UNCHANGED <<now, ticks, db_messages, buffers, db_summaries,
                   db_suggestions, pass, force, loop, runs, received,
                   suggestion_message_map, rewriting>>

\* The caller takes the result.
ServiceReturn ==
    /\ probe.op \in {"detect_post_worthy", "summarize_conversation",
                     "generate", "rewrite", "generation_loop",
                     "generate_content"}
    /\ probe' = NoProbe
    /\ UNCHANGED <<now, ticks, db_messages, buffers, db_summaries,
                   db_suggestions, pass, force, loop, runs, received,
                   suggestion_message_map, rewriting>>

NextServices ==
    \/ DetectCall
    \/ SummarizeCall
    \/ GenerateCall
    \/ RewriteCall
    \/ GenerationLoopCall
    \/ GenerateContentCall
    \/ ServiceReturn

\* The services are called by a pass that has come to its detection on
\* channel c1: the pass has read the messages of the window, saved its
\* summary and reset the buffer (no cache entry: nothing to reset).  An
\* earlier pass of the day summarized the same window and saved up to
\* max_suggestions_per_day - 1 suggestions.
InitServices ==
    /\ now = StartMinute
    /\ ticks = 0
    /\ db_messages = OneBusy
    /\ buffers = [c \in ChannelSet |-> NoBuffer]
    /\ db_summaries = [k \in 1..2 |-> SummaryRow("c1", get_buffer_from_db("c1"))]
    /\ \E n \in 0..(max_suggestions_per_day - 1) :
           db_suggestions = SuggestionRows(n, 1, [i \in 1..n |-> StartMinute])
    /\ pass = [t \in PassIds |-> IdlePass]
    /\ force = IdleForce
    /\ loop = "free"
    /\ runs = 0
    /\ received = 0
    /\ probe = NoProbe
    /\ suggestion_message_map = <<>>
    /\ rewriting = EmptyBag

SpecServices == InitServices /\ [][NextServices]_vars

\* ------------------------------------------------------------------------
\* Properties
\* ------------------------------------------------------------------------
Day(t) == t \div MinutesPerDay

\* C1 as stated: after every process_channel of a pass, the suggestions the
\* pass has persisted are at most the daily quota minus the suggestions of
\* the day counted when the pass started.
C1_QuotaBound ==
    probe.op = "process_channel" =>
        probe.persisted <= max_suggestions_per_day - probe.start_today

\* C1 amended: after every process_channel of a pass that has not run
\* across a UTC midnight, the suggestions the pass has persisted are at most
\* the daily quota minus the suggestions of the day counted when the pass
\* started, and none when that count already exceeds the quota.
C1_QuotaBoundWithinDay ==
    (probe.op = "process_channel" /\ Day(probe.start_at) = Day(now)) =>
        probe.persisted <= Max0(max_suggestions_per_day - probe.start_today)

\* A pass that found suggestions of the day and filled the rest of the quota.
C1_Witness ==
    /\ probe.op = "process_channel"
    /\ Day(probe.start_at) = Day(now)
    /\ probe.start_today > 0
    /\ probe.persisted > 0
    /\ probe.persisted = max_suggestions_per_day - probe.start_today

\* C2: the messages a pass reads for a channel hold no message recorded
\* before the window end of a summary that was produced for the channel
\* (and followed by the buffer reset) before the read.
C2_ConsumedNeverReadAgain ==
    probe.op = "process_channel" =>
        \A i \in 1..probe.summaries_before :
            db_summaries[i].channel_id = probe.channel_id =>
                \A m \in Range(probe.messages) :
                    m.timestamp >= db_summaries[i].window_end

\* C3: the two invocations of the pass (the scheduler's and the trigger
\* endpoint's) are never both inside process_all_channels.
C3_PassesNeverOverlap ==
    ~(pass["sched"].pc = "running" /\ pass["trig"].pc = "running")

\* A pass is half way through its channels while the handler of the other
\* invocation is still alive (delivering).
C3_Witness ==
    \E t, u \in PassIds :
        /\ pass[t].pc = "running"
        /\ pass[t].idx = Len(Channels)
        /\ pass[u].pc = "deliver"

\* The most one channel adds to the suggestions of a day.
ChannelWorth == max_suggestions_per_day

SuggestionsOnDayOf(i) ==
    Cardinality({j \in 1..Len(db_suggestions) :
                    Day(db_suggestions[j].created_at) =
                    Day(db_suggestions[i].created_at)})

\* C4: the suggestions persisted on one day exceed the daily quota by at
\* most one channel's worth.
C4_QuotaExcessBounded ==
    \A i \in 1..Len(db_suggestions) :
        SuggestionsOnDayOf(i) <= max_suggestions_per_day + ChannelWorth

\* C5: a should_summarize call on a non-empty cache answers true exactly
\* when the cached count reaches the threshold, or the window has elapsed
\* since it opened and at least three messages are cached.
C5_ReadyWithCache ==
    (probe.op = "should_summarize" /\ probe.cached > 0) =>
        (probe.ready <=>
            \/ probe.cached >= min_messages_for_summary
            \/ /\ probe.elapsed >= buffer_window_minutes
               /\ probe.cached >= 3)

\* Three cached messages, the window elapsed by a short step: ready.
C5_Witness ==
    /\ probe.op = "should_summarize"
    /\ probe.cached = 3
    /\ probe.elapsed = buffer_window_minutes + ShortStep
    /\ probe.ready

\* C6: a should_summarize call on an absent or empty cache answers true
\* exactly when the durable window query holds at least the threshold.
C6_ReadyWithoutCache ==
    (probe.op = "should_summarize" /\ probe.cached = 0) =>
        (probe.ready <=> probe.durable >= min_messages_for_summary)

\* An empty cache whose window has elapsed, with at least three messages in
\* the durable window: not ready.
C6_Witness ==
    /\ probe.op = "should_summarize"
    /\ probe.present
    /\ probe.cached = 0
    /\ probe.elapsed >= buffer_window_minutes
    /\ probe.durable >= 3
    /\ ~probe.ready

\* Ready because of the count: the cached count, or the durable count when
\* the cache is absent or empty.
ReadyByCount(c) ==
    IF buffers[c].present /\ buffers[c].messages # <<>>
    THEN Len(buffers[c].messages) >= min_messages_for_summary
    ELSE Len(get_buffer_from_db(c)) >= min_messages_for_summary

\* C7: a message recorded on a channel that is ready because of the count
\* leaves the channel ready.
C7_ReadinessMonotone ==
    [][\A c \in ChannelSet :
          (/\ ReadyByCount(c)
           /\ Len(db_messages'[c]) = Len(db_messages[c]) + 1)
          => should_summarize(c)']_vars

\* What one reset at time t leaves of buffer b.
ResetOnce(b, t) ==
    IF b.present THEN [present |-> TRUE, messages |-> <<>>, started_at |-> t]
    ELSE b

\* C8: after two resets in a row the buffer is as after one: an empty
\* cache whose window start is the time of the last reset.
C8_ResetTwice ==
    (probe.op = "clear_buffer" /\ probe.again) =>
        /\ buffers[probe.channel_id] = ResetOnce(probe.before, probe.at)
        /\ buffers[probe.channel_id] =
              [present |-> TRUE, messages |-> <<>>, started_at |-> probe.at]

\* C9: a channel for which a pass, or the force trigger, attempted
\* summarization has had its buffer reset exactly once by that attempt.
C9_ResetOncePerAttempt ==
    (probe.op \in {"process_channel", "force_channel"} /\ probe.attempted) =>
        probe.resets = 1

\* C10: a get_messages_for_summary call returns the durable window when it
\* is not empty, whatever the cache holds, and otherwise the cache (or the
\* empty sequence when the channel has none).
C10_PrefersDurable ==
    probe.op = "get_messages_for_summary" =>
        probe.result =
            IF probe.durable # <<>> THEN probe.durable
            ELSE IF probe.present THEN probe.cache ELSE <<>>

\* The durable window returned although the cache holds other messages.
C10_Witness ==
    /\ probe.op = "get_messages_for_summary"
    /\ probe.durable # <<>>
    /\ probe.cache # <<>>
    /\ probe.cache # probe.durable
    /\ probe.result = probe.durable

\* The call of process_channel that the probe describes wrote nothing: no
\* row, no change of the channel's cache, nothing added to all_results.
NothingWritten ==
    /\ Len(db_summaries) = probe.summaries_before
    /\ Len(db_suggestions) = probe.suggestions_before
    /\ buffers[probe.channel_id] = probe.buffer_before
    /\ pass[probe.pass_id].all_results = probe.results_before

\* C11: a call of process_channel for a channel that is not ready changes
\* nothing: no summary and no suggestion is persisted, the cache and its
\* window start are as before, nothing is added to the result list.
C11_NotReadyNoEffect ==
    (probe.op = "process_channel" /\ ~probe.step.ready) => NothingWritten

\* A channel with a cached message, not ready, was processed.
C11_Witness ==
    /\ probe.op = "process_channel"
    /\ ~probe.step.ready
    /\ ~probe.step.raised
    /\ probe.buffer_before.messages # <<>>

\* C12 as stated: a channel whose quota check finds the day's count at the
\* quota is skipped with nothing written; and once a quota check of a pass
\* found the quota used up, every later quota check of the pass finds it so.
C12_QuotaSkip ==
    (probe.op = "process_channel" /\ probe.step.checked_quota) =>
        /\ probe.step.suggestions_today >= max_suggestions_per_day =>
              (NothingWritten /\ probe.resets = 0)
        /\ probe.exhausted_before =>
              probe.step.suggestions_today >= max_suggestions_per_day

\* C12 amended: a channel whose quota check finds the day's count at the
\* quota is skipped with nothing written; and once a quota check of a pass
\* found the quota used up, every later quota check of the pass on the same
\* UTC day finds it so.
C12_QuotaSkipWithinDay ==
    (probe.op = "process_channel" /\ probe.step.checked_quota) =>
        /\ probe.step.suggestions_today >= max_suggestions_per_day =>
              (NothingWritten /\ probe.resets = 0)
        /\ (probe.exhausted_before /\ Day(probe.start_at) = Day(now)) =>
              probe.step.suggestions_today >= max_suggestions_per_day

\* The second channel of a pass finds the quota used up as the first did.
C12_Witness ==
    /\ probe.op = "process_channel"
    /\ probe.step.checked_quota
    /\ probe.exhausted_before
    /\ Day(probe.start_at) = Day(now)
    /\ probe.step.suggestions_today >= max_suggestions_per_day

\* C13: when the summarizer returns none, or a summary with empty text, for
\* the messages of a ready channel, process_channel resets the channel's
\* buffer once and persists no summary and no suggestion.
C13_NoSummaryResets ==
    (probe.op = "process_channel" /\ probe.step.summary \in {"none", "empty"}) =>
        /\ probe.messages # <<>>
        /\ probe.resets = 1
        /\ buffers[probe.channel_id] =
               ResetOnce(probe.buffer_before, probe.step.reset_at)
        /\ Len(db_summaries) = probe.summaries_before
        /\ Len(db_suggestions) = probe.suggestions_before
        /\ pass[probe.pass_id].all_results = probe.results_before

\* A summary with empty text for a channel whose cache held messages.
C13_Witness ==
    /\ probe.op = "process_channel"
    /\ probe.step.summary = "empty"
    /\ probe.buffer_before.messages # <<>>
    /\ buffers[probe.channel_id].messages = <<>>

\* C14: whenever the summarizer returned a summary with text for a channel,
\* the call of process_channel has reset the channel's buffer, whatever the
\* later steps did.
C14_SummaryAlwaysResets ==
    (probe.op = "process_channel" /\ probe.step.summary = "ok") =>
        /\ probe.resets = 1
        /\ buffers[probe.channel_id] =
               ResetOnce(probe.buffer_before, probe.step.reset_at)

\* C15: when the detector answers not post-worthy, or no ideas, the call of
\* process_channel has persisted one summary, for the channel, and no
\* suggestion.
C15_NotPostWorthy ==
    (/\ probe.op = "process_channel"
     /\ probe.step.detected
     /\ ~probe.step.is_post_worthy \/ probe.step.no_ideas) =>
        /\ Len(db_summaries) = probe.summaries_before + 1
        /\ db_summaries[Len(db_summaries)].channel_id = probe.channel_id
        /\ Len(db_suggestions) = probe.suggestions_before
        /\ pass[probe.pass_id].all_results = probe.results_before

\* The detector gave ideas and said they are not post-worthy.
C15_Witness ==
    /\ probe.op = "process_channel"
    /\ probe.step.detected
    /\ ~probe.step.is_post_worthy
    /\ ~probe.step.no_ideas

\* C17: when process_channel raises, the pass goes on with the next channel
\* (or ends, after the last: delivering if there is a suggestion), and the
\* suggestions collected from the earlier channels are still in all_results.
C17_ErrorIsolated ==
    (probe.op = "process_channel" /\ probe.step.raised) =>
        /\ probe.index < Len(Channels) =>
              /\ pass[probe.pass_id].pc = "running"
              /\ pass[probe.pass_id].idx = probe.index + 1
              /\ loop = probe.pass_id
        /\ probe.index = Len(Channels) =>
              pass[probe.pass_id].pc =
                  IF probe.results_before = <<>> THEN "idle" ELSE "deliver"
        /\ pass[probe.pass_id].all_results = probe.results_before

\* The first channel raised after its summary was saved; the pass is at
\* the second channel.
C17_Witness ==
    /\ probe.op = "process_channel"
    /\ probe.step.raised
    /\ probe.step.detected
    /\ probe.index = 1
    /\ pass[probe.pass_id].pc = "running"
    /\ pass[probe.pass_id].idx = 2

\* C16: every row of the suggestions table has a non-empty LinkedIn draft
\* and a non-empty X draft, and was created in status pending.
C16_DraftsNonEmpty ==
    \A i \in 1..Len(db_suggestions) :
        /\ db_suggestions[i].linkedin_draft # ""
        /\ db_suggestions[i].x_draft # ""
        /\ db_suggestions[i].status = "pending"

\* The list an idea was left with before idea i of a filter_ideas call
FilteredBefore(trace, i) == IF i = 1 THEN <<>> ELSE trace[i - 1].filtered_after

\* The insights of the ideas kept before idea j, in order
RECURSIVE SurvivorsBefore(_, _, _)
SurvivorsBefore(ideas, trace, j) ==
    IF j <= 1 THEN <<>>
    ELSE LET earlier == SurvivorsBefore(ideas, trace, j - 1) IN
         IF trace[j - 1].kept THEN Append(earlier, ideas[j - 1]) ELSE earlier

\* C18: in a filter_ideas call, an idea whose sensitivity call fails is
\* reported sensitive, is not appended to the output and is not appended to
\* the list later ideas are checked against.
C18_SensitivityFailClosed ==
    probe.op = "filter_ideas" =>
        \A i \in 1..Len(probe.ideas) :
            LET e == probe.result.trace[i] IN
            (e.sens_called /\ probe.sens_answers[i] = "fail") =>
                /\ e.is_sensitive
                /\ ~e.kept
                /\ e.filtered_after = FilteredBefore(probe.result.trace, i)
                /\ e.existing_after = e.seen
                /\ Len(probe.result.filtered) < Len(probe.ideas)

C18_Witness ==
    /\ probe.op = "filter_ideas"
    /\ probe.result.filtered # <<>>
    /\ \E i \in 1..Len(probe.ideas) :
           /\ probe.result.trace[i].sens_called
           /\ probe.sens_answers[i] = "fail"
           /\ probe.dup_answers[i] = "distinct"

\* C19: in a filter_ideas call, an idea whose duplicate call fails is
\* reported not duplicate and, if its sensitivity call answers safe, is
\* appended to the output; and an idea checked against an empty list is
\* reported not duplicate with no call made.
C19_DuplicateFailOpen ==
    probe.op = "filter_ideas" =>
        \A i \in 1..Len(probe.ideas) :
            LET e == probe.result.trace[i] IN
            /\ (e.dup_called /\ probe.dup_answers[i] = "fail") =>
                   /\ ~e.is_dup
                   /\ e.sens_called
                   /\ probe.sens_answers[i] = "safe" =>
                          /\ e.kept
                          /\ e.filtered_after =
                                 Append(FilteredBefore(probe.result.trace, i),
                                        probe.ideas[i])
            /\ e.seen = <<>> => ~e.dup_called /\ ~e.is_dup

C19_Witness ==
    /\ probe.op = "filter_ideas"
    /\ \E i \in 1..Len(probe.ideas) :
           /\ probe.result.trace[i].dup_called
           /\ probe.dup_answers[i] = "fail"
           /\ probe.sens_answers[i] = "safe"
           /\ probe.result.trace[i].kept
    /\ \E i \in 1..Len(probe.ideas) :
           /\ probe.result.trace[i].seen = <<>>
           /\ probe.dup_answers[i] = "duplicate"

\* C20: in a filter_ideas call, each idea is checked against the saved
\* insights followed by the insights of all the ideas kept before it, and an
\* idea the duplicate check reports as duplicate is not in the output.
C20_BatchCrossCheck ==
    probe.op = "filter_ideas" =>
        /\ \A j \in 1..Len(probe.ideas) :
               LET e == probe.result.trace[j] IN
               /\ e.seen = probe.saved \o
                      SurvivorsBefore(probe.ideas, probe.result.trace, j)
               /\ e.is_dup =>
                      /\ ~e.kept
                      /\ e.filtered_after =
                             FilteredBefore(probe.result.trace, j)
        /\ probe.result.filtered =
               SurvivorsBefore(probe.ideas, probe.result.trace,
                               Len(probe.ideas) + 1)

C20_Witness ==
    /\ probe.op = "filter_ideas"
    /\ probe.saved = <<>>
    /\ \E i, j \in 1..Len(probe.ideas) :
           /\ i < j
           /\ probe.result.trace[i].kept
           /\ probe.result.trace[j].seen = <<probe.ideas[i]>>
           /\ probe.result.trace[j].is_dup
           /\ probe.result.filtered = <<probe.ideas[i]>>

\* The step leaves the statuses of the suggestions table as they are.
StatusesKept ==
    /\ Len(db_suggestions') = Len(db_suggestions)
    /\ \A i \in 1..Len(db_suggestions) :
           db_suggestions'[i].status = db_suggestions[i].status

\* C26: a save reaction on a suggestion that is already saved writes no
\* status.
C26_SecondSaveWritesNothing ==
    (/\ probe.op = "reaction"
     /\ probe.reaction = "+1"
     /\ probe.status_before = "saved") => probe.writes = 0

\* C27: a reaction on a message that is not a suggestion, or on a
\* suggestion that the handler finds saved, ignored or rewritten, changes
\* no status in any step of its handler.
C27_TerminalIsNoOp ==
    [][(/\ probe'.op = "reaction"
        /\ \/ probe'.suggestion_id = 0
           \/ probe'.status_before \in {"saved", "ignored", "rewritten"})
       => StatusesKept]_vars

\* C28: when the handler of a rewrite reaction on a suggestion it found
\* pending has ended, the suggestion is in status rewritten with its drafts
\* as they were, and a suggestion in status pending was added since the
\* handler read the table.
C28_RewriteForks ==
    (/\ probe.op = "reaction"
     /\ probe.reaction = "arrows_counterclockwise"
     /\ probe.status_before = "pending"
     /\ probe.outcome \in SendOutcomes) =>
        LET id == probe.suggestion_id IN
        /\ db_suggestions[id].status = "rewritten"
        /\ db_suggestions[id].linkedin_draft =
               probe.rows_before[id].linkedin_draft
        /\ db_suggestions[id].x_draft = probe.rows_before[id].x_draft
        /\ \E i \in (Len(probe.rows_before) + 1)..Len(db_suggestions) :
               db_suggestions[i].status = "pending"

\* C29: each step of the handler of a rewrite reaction on a suggestion it
\* found saved or ignored (the step that reads the suggestion and drafts
\* anew, and the step in which its post returns) leaves the suggestions
\* table as it is, or extends it by one pending suggestion; neither changes
\* the status of the suggestion it names.
C29_RewriteKeepsStatus ==
    [][(/\ probe'.op = "reaction"
        /\ probe'.reaction = "arrows_counterclockwise"
        /\ probe'.status_before \in {"saved", "ignored"}) =>
           /\ db_suggestions'[probe'.suggestion_id].status =
                  db_suggestions[probe'.suggestion_id].status
           /\ \/ db_suggestions' = db_suggestions
              \/ /\ Len(db_suggestions') = Len(db_suggestions) + 1
                 /\ SubSeq(db_suggestions', 1, Len(db_suggestions)) =
                        db_suggestions
                 /\ db_suggestions'[Len(db_suggestions')].status = "pending"
      ]_vars

\* A rewrite was asked for a saved suggestion, and its message was posted;
\* the suggestion is saved still.
C29_Witness ==
    /\ probe.op = "reaction"
    /\ probe.reaction = "arrows_counterclockwise"
    /\ probe.status_before = "saved"
    /\ probe.outcome = "sent"
    /\ probe.drafts.x_draft = "fresh"
    /\ db_suggestions[probe.suggestion_id].status = "saved"
    /\ suggestion_message_map[Len(suggestion_message_map)] =
           probe.suggestion_id

\* The suggestions whose post succeeded, in the order posted
RECURSIVE SentIds(_, _)
SentIds(ids, outcomes) ==
    IF ids = <<>> THEN <<>>
    ELSE LET rest == SentIds(Tail(ids), Tail(outcomes)) IN
         IF Head(outcomes) = "sent" THEN <<Head(ids)>> \o rest ELSE rest

\* C30: every delivery that succeeds, of a pass or of a rewrite, stores the
\* suggestion's id under the timestamp of the new message; an entry of the
\* map is never removed or changed; and a reaction on a stored timestamp
\* finds the id stored for it.
C30_HandleResolves ==
    [][/\ Len(suggestion_message_map') >= Len(suggestion_message_map)
       /\ SubSeq(suggestion_message_map', 1, Len(suggestion_message_map)) =
              suggestion_message_map
       /\ probe'.op = "deliver" =>
              suggestion_message_map' =
                  suggestion_message_map \o SentIds(probe'.ids, probe'.outcomes)
       /\ (probe'.op = "reaction" /\ probe'.outcome = "sent") =>
              suggestion_message_map' =
                  Append(suggestion_message_map, probe'.suggestion_id)
       /\ (probe'.op = "reaction" /\ probe'.ts <= Len(suggestion_message_map))
              => probe'.suggestion_id = suggestion_message_map[probe'.ts]]_vars

\* A reaction on the first suggestion message, after a message of another
\* suggestion was posted, found the first suggestion.
C30_Witness ==
    /\ probe.op = "reaction"
    /\ probe.ts = 1
    /\ Len(probe.map_before) >= 2
    /\ probe.suggestion_id = probe.map_before[1]
    /\ \E h \in 2..Len(probe.map_before) :
           probe.map_before[h] # probe.map_before[1]

\* The model call of detect_post_worthy, or the parsing of its result,
\* failed: the call or json.loads raised, the answer is no object, the
\* iteration over its ideas or the reading of one of them raised, or
\* PostWorthinessResult rejected is_post_worthy.  An empty object or an
\* empty string under "ideas" is read as no ideas; nothing fails on it.
DetectFailure(answer) ==
    \/ answer.kind # "object"
    \/ answer.ideas \in {"bad_item", "not_list"}
    \/ answer.is_post_worthy = "invalid"

\* C21: detect_post_worthy never raises, what it returns is one of the
\* results the pipeline expects, it returns is_post_worthy false with no
\* ideas whenever its model call or the parsing of the answer fails, and it
\* returns no idea unless the answer holds a list of ideas.
C21_DetectFailsClosed ==
    probe.op = "detect_post_worthy" =>
        /\ ~probe.result.raised
        /\ [is_post_worthy |-> probe.result.is_post_worthy,
            ideas |-> probe.result.ideas] \in DetectionOutcomes
        /\ DetectFailure(probe.answer) =>
               /\ ~probe.result.is_post_worthy
               /\ probe.result.ideas = 0
        /\ (probe.answer.kind # "object" \/ probe.answer.ideas # "list") =>
               probe.result.ideas = 0

\* The model said post-worthy, and one of its ideas was malformed.
C21_Witness ==
    /\ probe.op = "detect_post_worthy"
    /\ probe.answer.kind = "object"
    /\ probe.answer.is_post_worthy = "true"
    /\ probe.answer.ideas = "bad_item"
    /\ probe.result = DetectionFailed

\* C22: summarize_conversation never raises; on no messages it returns none
\* without calling the model; when the model call or the parsing of the
\* answer fails it returns none.
C22_SummarizeReturnsNone ==
    probe.op = "summarize_conversation" =>
        /\ ~probe.result.raised
        /\ probe.result.summary \in SummaryOutcomes
        /\ probe.message_count = 0 =>
               (~probe.result.called /\ probe.result.summary = "none")
        /\ (\/ probe.answer.kind # "object"
            \/ probe.answer.summary = "invalid"
            \/ probe.answer.lists = "invalid") => probe.result.summary = "none"

\* No messages, and a model that would have answered with a summary.
C22_Witness ==
    /\ probe.op = "summarize_conversation"
    /\ probe.message_count = 0
    /\ probe.answer.kind = "object"
    /\ probe.answer.summary = "text"
    /\ probe.answer.lists = "valid"
    /\ probe.result.summary = "none"

\* C23: every short-form draft that first-time generation or a rewrite
\* returns has at most 280 characters, whatever the length of the model
\* output.
C23_ShortDraftBounded ==
    (probe.op \in {"generate", "rewrite"} /\ probe.form = "x") =>
        Len(probe.draft) <= XMaxLength

\* A rewrite whose model output was over the limit came back cut to 280
\* characters, marker included.
C23_Witness ==
    /\ probe.op = "rewrite"
    /\ probe.form = "x"
    /\ probe.answer.ok
    /\ Len(probe.answer.content) > XMaxLength
    /\ Len(probe.draft) = XMaxLength
    /\ SubSeq(probe.draft, XKeptLength + 1, XMaxLength) = TruncationMarker

\* A hashtag token: '#' followed by a word character
HasHashtag(text) ==
    \E i \in 1..(Len(text) - 1) : text[i] = "#" /\ IsWord(text[i + 1])
HasEmoji(text) == \E i \in 1..Len(text) : IsEmoji(text[i])

\* C24 (as stated): no cleaned draft, long-form or short-form, contains a
\* hashtag token or a code point of the stripped ranges.
C24_DraftsClean ==
    (probe.op \in {"generate", "rewrite"} /\ probe.answer.ok) =>
        ~HasHashtag(probe.draft) /\ ~HasEmoji(probe.draft)

\* C25 (as stated): a rewrite whose model call fails returns the original
\* draft, a rewrite never returns an empty draft, and a first-time
\* generation whose model call fails returns the empty text.
C25_RewriteNeverEmpty ==
    /\ (probe.op = "rewrite" /\ ~probe.answer.ok) =>
           probe.draft = probe.original_draft
    /\ probe.op = "rewrite" => probe.draft # <<>>
    /\ (probe.op = "generate" /\ ~probe.answer.ok) => probe.draft = <<>>

\* C31 (as stated): every suggestion in the result list of a pass is
\* eventually delivered to the reviewer, a failed attempt being followed by
\* a later one.
C31_EventuallyDelivered ==
    \A id \in 1..max_suggestions_per_day :
        [](/\ pass["sched"].pc = "deliver"
           /\ id \in Range(pass["sched"].all_results)
           => <>(id \in Range(suggestion_message_map)))

\* C32 (as stated): a model call or store call that fails inside a
\* component is turned into the component's fallback value there; no call
\* of process_channel ends with an error raised to the orchestrator.
C32_FailuresStayInComponent ==
    probe.op = "process_channel" => ~probe.step.raised

\* C33 (as stated): generation is attempted for exactly the first
\* min(remaining_slots, number of filtered ideas) filtered ideas, in their
\* order, and for no other idea.
C33_GeneratesExactPrefix ==
    probe.op = "generation_loop" =>
        probe.result.attempted =
            SubSeq(probe.filtered_ideas, 1,
                   Min(Len(probe.filtered_ideas),
                       max_suggestions_per_day - probe.suggestions_today))

\* C34: filter_ideas takes the ideas in the order given (each idea is
\* checked against the saved insights and the ideas kept before it), its
\* output is the ideas it kept, in their order and once each, and an idea
\* found duplicate gets no sensitivity check.
C34_FilterKeepsOrder ==
    probe.op = "filter_ideas" =>
        LET ideas == probe.ideas
            trace == probe.result.trace
        IN  /\ Len(trace) = Len(ideas)
            /\ probe.result.filtered =
                   SurvivorsBefore(ideas, trace, Len(ideas) + 1)
            /\ Len(probe.result.filtered) <= Len(ideas)
            /\ \A i \in 1..Len(ideas) :
                   /\ trace[i].seen =
                          probe.saved \o SurvivorsBefore(ideas, trace, i)
                   /\ trace[i].is_dup => ~trace[i].sens_called
                   /\ ~trace[i].is_dup => trace[i].sens_called
                   /\ trace[i].kept = (~trace[i].is_dup /\ ~trace[i].is_sensitive)

\* Of two different ideas the first was found duplicate, and was not
\* checked for sensitivity; the second alone is the output.
C34_Witness ==
    /\ probe.op = "filter_ideas"
    /\ Len(probe.ideas) = 2
    /\ probe.ideas[1] # probe.ideas[2]
    /\ probe.result.trace[1].is_dup
    /\ ~probe.result.trace[1].sens_called
    /\ probe.result.filtered = <<probe.ideas[2]>>

\* C35: generate_content never raises and makes both model calls; each
\* draft is what its own call yields, the empty text when that call fails,
\* whatever the other call does.
C35_DraftsIndependent ==
    probe.op = "generate_content" =>
        /\ ~probe.result.raised
        /\ probe.result.x_called
        /\ probe.result.linkedin_draft =
               generate_linkedin_post(probe.linkedin_answer)
        /\ probe.result.x_draft = generate_x_post(probe.x_answer)
        /\ ~probe.linkedin_answer.ok => probe.result.linkedin_draft = <<>>
        /\ ~probe.x_answer.ok => probe.result.x_draft = <<>>

\* The long-form call failed; the short-form draft came back all the same.
C35_Witness ==
    /\ probe.op = "generate_content"
    /\ ~probe.linkedin_answer.ok
    /\ probe.x_answer.ok
    /\ probe.result.linkedin_draft = <<>>
    /\ probe.result.x_draft # <<>>

\* SuggestionStatus
Statuses == {"pending", "saved", "ignored", "rewritten"}

\* The suggestions whose status a step changes
StatusChanged ==
    {i \in 1..Len(db_suggestions) :
        /\ i <= Len(db_suggestions')
        /\ db_suggestions'[i].status # db_suggestions[i].status}

\* C36: every status is one of pending, saved, ignored, rewritten; a step
\* that changes the status of a suggestion is a reaction event, and it
\* changes the status of one suggestion; any other step, a pipeline pass
\* among them, leaves every existing suggestion as it was and can only add
\* suggestions; a reaction event changes no draft.
C36_StatusByFeedbackOnly ==
    [][/\ \A i \in 1..Len(db_suggestions') :
              db_suggestions'[i].status \in Statuses
       /\ Len(db_suggestions') >= Len(db_suggestions)
       /\ StatusChanged # {} => probe'.op = "reaction"
       /\ Cardinality(StatusChanged) <= 1
       /\ probe'.op # "reaction" =>
              SubSeq(db_suggestions', 1, Len(db_suggestions)) = db_suggestions
       /\ \A i \in 1..Len(db_suggestions) :
              /\ db_suggestions'[i].linkedin_draft =
                     db_suggestions[i].linkedin_draft
              /\ db_suggestions'[i].x_draft = db_suggestions[i].x_draft
      ]_vars

\* A reaction changed the status of one of several pending suggestions.
C36_Witness ==
    /\ probe.op = "reaction"
    /\ probe.writes = 1
    /\ Len(probe.rows_before) >= 2
    /\ \A i \in 1..Len(probe.rows_before) :
           probe.rows_before[i].status = "pending"
    /\ db_suggestions[probe.suggestion_id].status = "ignored"
    /\ \E i \in 1..Len(db_suggestions) : db_suggestions[i].status = "pending"

\* C37 (as stated): right after clear_buffer on a channel, no message having
\* been recorded since, should_summarize is false for the channel.
C37_NotReadyAfterReset ==
    (probe.op = "clear_buffer" /\ probe.at = now) =>
        ~should_summarize(probe.channel_id)

\* C38 (as stated): when process_channel summarizes a channel and resets its
\* buffer, every message the cache held is among the messages handed to the
\* summarizer.
C38_CacheIsSummarized ==
    (probe.op = "process_channel" /\ probe.resets >= 1) =>
        Range(probe.buffer_before.messages) \subseteq Range(probe.messages)

\* C39 (as stated): a suggestion is persisted, by a pass or by the force
\* trigger, only for an idea that went through filter_ideas.
C39_OnlyFilteredIdeas ==
    (/\ probe.op \in {"process_channel", "force_channel"}
     /\ Len(db_suggestions) > probe.suggestions_before) => probe.filtered

\* C40 (as stated): no step of the handler of a rewrite reaction changes a
\* persisted field of a suggestion; the step in which its post returns
\* stores the new message under the same suggestion id, and the drafts that
\* the new message shows are the drafts stored for that suggestion, which a
\* later save of the message leaves as they are.
C40_RewrittenMessageShowsStored ==
    [][(/\ probe'.op = "reaction"
        /\ probe'.reaction = "arrows_counterclockwise"
        /\ probe'.suggestion_id # 0) =>
           LET id == probe'.suggestion_id IN
           /\ db_suggestions' = db_suggestions
           /\ probe'.outcome = "sent" =>
                  /\ suggestion_message_map' =
                         Append(suggestion_message_map, id)
                  /\ probe'.drafts.linkedin_draft =
                         db_suggestions'[id].linkedin_draft
                  /\ probe'.drafts.x_draft = db_suggestions'[id].x_draft
      ]_vars

====
